---- MODULE Spec2Model ----
(***************************************************************************)
(* Model of the specification execution engine of voice-first-to-do:       *)
(* QueryExecutor (services/query_executor.py), the operation strategies    *)
(* (operations/*.py), SafeQueryBuilder / FilterBuilder (builders/*.py) and *)
(* TaskRepository (repositories/task_repository.py) over a task table.     *)
(***************************************************************************)
EXTENDS Integers, Sequences, FiniteSets, TLC

(***************************************************************************)
(* Bounds of the model                                                     *)
(***************************************************************************)
NumUsers == 2
MaxSteps == 2
MaxClock == 1

Users == 1..NumUsers
Execs == 1..2

(***************************************************************************)
(* Program constants and absent-value markers                              *)
(***************************************************************************)
GetAllDefaultLimit == 100
MinPriority == 0
MaxPriority == 3

\* Python None for an integer-valued field (limit, index, priority, time)
NoInt == -100
\* Python None / "" for a string-valued field
NoStr == ""
\* absent task id / absent user id
NoId == 0

ALLOWED_STATUSES == {"pending", "in_progress", "completed"}

ALLOWED_FILTERS ==
    {"is_overdue", "is_today", "is_completed",
     "priority_min", "priority_max", "priority_equals",
     "category", "status", "keyword",
     "scheduled_after", "scheduled_before",
     "created_after", "created_before"}

\* length of a day on the model's clock (is_today window)
DayLen == 2

(***************************************************************************)
(* Values                                                                  *)
(***************************************************************************)
\* A filter value is a tagged Python value: None, int, bool, str, or a
\* string that parses as ISO-8601 (i is then the instant it denotes).
VNone == [t |-> "none", i |-> 0, s |-> NoStr]
VInt(n) == [t |-> "int", i |-> n, s |-> NoStr]
VBool(b) == [t |-> "bool", i |-> IF b THEN 1 ELSE 0, s |-> NoStr]
VStr(x) == [t |-> "str", i |-> 0, s |-> x]
VIso(n) == [t |-> "iso", i |-> n, s |-> NoStr]

\* isinstance(value, int): bool is a subclass of int in Python
IsInstanceInt(v) == v.t \in {"int", "bool"}
\* isinstance(value, str)
IsInstanceStr(v) == v.t \in {"str", "iso"}

FilterSpec(type, value) == [type |-> type, value |-> value]

\* allowed_types of FilterSpec.__post_init__
allowed_types ==
    {"is_overdue", "is_today", "is_completed",
     "priority_min", "priority_max", "priority_equals",
     "category", "status", "keyword",
     "scheduled_after", "scheduled_before",
     "created_after", "created_before"}

\* FilterSpec.__post_init__ returns (TRUE) or raises ValueError (FALSE)
FilterSpecValid(type) == type \in allowed_types

\* Task row of table "toDoList"
Task(id, u, title, category, priority, status, sched, created) ==
    [id |-> id, user_id |-> u, title |-> title, category |-> category,
     priority |-> priority, status |-> status, scheduled_time |-> sched,
     created_at |-> created]

\* A dict of task fields (StepSpec.params, StepSpec.modifications); a field
\* holding its absent marker is not a key of the dict.
Fields(task_id, title, priority, status, sched, user_id) ==
    [task_id |-> task_id, title |-> title, priority |-> priority,
     status |-> status, scheduled_time |-> sched, user_id |-> user_id]
EmptyDict == Fields(NoId, NoStr, NoInt, NoStr, NoInt, NoId)
\* modifications = None
NoMods == [none |-> TRUE]

\* OperationResult.data
DataNone == [kind |-> "none", tasks |-> <<>>, id |-> NoId, n |-> 0]
DataList(ts) == [kind |-> "list", tasks |-> ts, id |-> NoId, n |-> 0]
DataTask(t) == [kind |-> "task", tasks |-> <<t>>, id |-> t.id, n |-> 0]
DataDeleted(id) == [kind |-> "deleted", tasks |-> <<>>, id |-> id, n |-> 0]
DataCount(n) == [kind |-> "count", tasks |-> <<>>, id |-> NoId, n |-> n]

\* Python truthiness of OperationResult.data ("not previous_data")
Truthy(d) ==
    CASE d.kind = "none" -> FALSE
      [] d.kind = "list" -> Len(d.tasks) > 0
      [] OTHER -> TRUE

OperationResult(success, data, message) ==
    [success |-> success, data |-> data, message |-> message]

\* Exception / result messages are sequences of strings (text, argument)
Msg(text) == <<text>>
MsgArg(text, arg) == <<text, arg>>

(***************************************************************************)
(* builders/filter_builder.py                                              *)
(***************************************************************************)
\* datetime.fromisoformat(value.replace('Z', '+00:00')) succeeds
ParsesIso(v) == v.t = "iso"

\* the _filter_* function of the type returns without raising
FilterValueOk(type, v) ==
    CASE type \in {"is_overdue", "is_today", "is_completed"} -> TRUE
      [] type \in {"priority_min", "priority_max", "priority_equals"} ->
            IsInstanceInt(v) /\ ~(v.i < MinPriority) /\ ~(v.i > MaxPriority)
      [] type \in {"category", "keyword"} -> IsInstanceStr(v)
      [] type = "status" -> v.t = "str" /\ v.s \in ALLOWED_STATUSES
      [] type \in {"scheduled_after", "scheduled_before",
                   "created_after", "created_before"} -> ParsesIso(v)
      [] OTHER -> FALSE

\* str.lower() and substring test over the model's vocabulary
Lower(s) == IF s = "Work" THEN "work" ELSE s
IsSubstring(a, b) == a = b \/ a = NoStr \/ <<a, b>> \in {<<"wor", "work">>}

\* Task.category.ilike('%value%'); NULL category never matches
ILike(category, value) ==
    category # NoStr /\ IsSubstring(Lower(value), Lower(category))

\* Task.search_vector @@ plainto_tsquery('english', value) over
\* title || description || category, on single-word fields
FullTextMatch(t, value) ==
    value # NoStr /\ (Lower(t.title) = Lower(value) \/ Lower(t.category) = Lower(value))

\* start_of_day / end_of_day of FilterBuilder._filter_is_today
StartOfDay(now) == now - (now % DayLen)
EndOfDay(now) == StartOfDay(now) + DayLen - 1

\* The SQL predicate contributed by an accepted filter, evaluated on row t
\* with datetime.utcnow() = now.  Comparisons with NULL are not true.
FilterPredicate(f, t, now) ==
    LET v == f.value IN
    CASE f.type = "is_overdue" ->
            t.scheduled_time # NoInt /\ t.scheduled_time < now /\ t.status # "completed"
      [] f.type = "is_today" ->
            t.scheduled_time # NoInt /\ t.scheduled_time >= StartOfDay(now)
                                     /\ t.scheduled_time <= EndOfDay(now)
      [] f.type = "is_completed" -> t.status = "completed"
      [] f.type = "priority_min" -> t.priority >= v.i
      [] f.type = "priority_max" -> t.priority <= v.i
      [] f.type = "priority_equals" -> t.priority = v.i
      [] f.type = "category" -> ILike(t.category, v.s)
      [] f.type = "status" -> t.status = v.s
      [] f.type = "keyword" -> FullTextMatch(t, v.s)
      [] f.type = "scheduled_after" ->
            t.scheduled_time # NoInt /\ t.scheduled_time >= v.i
      [] f.type = "scheduled_before" ->
            t.scheduled_time # NoInt /\ t.scheduled_time <= v.i
      [] f.type = "created_after" -> t.created_at >= v.i
      [] f.type = "created_before" -> t.created_at <= v.i
      [] OTHER -> FALSE

\* apply_filter without the whitelist test: an unknown type adds a predicate
ApplyFilterNoWhitelist(query, f) ==
    IF f.type \in ALLOWED_FILTERS /\ ~FilterValueOk(f.type, f.value)
    THEN [ok |-> FALSE, query |-> query,
          message |-> MsgArg("Failed to apply filter", f.type)]
    ELSE [ok |-> TRUE,
          query |-> [query EXCEPT !.where = Append(@, f)],
          message |-> Msg("")]

\* the domain named by the exception a _filter_* function raises
AcceptedDomain(type) ==
    CASE type \in {"priority_min", "priority_max", "priority_equals"} -> "must be 0-3"
      [] type \in {"category", "keyword"} -> "must be a string"
      [] type = "status" -> "must be one of pending, in_progress, completed"
      [] OTHER -> "must be ISO 8601 datetime"

\* FilterBuilder.apply_filter: the query with one more AND-ed predicate, or
\* a QueryValidationException(message, details) (ok = FALSE, query not
\* returned); str() of the exception is its message
ApplyFilter(query, f) ==
    IF f.type \notin ALLOWED_FILTERS
    THEN [ok |-> FALSE, query |-> query,
          message |-> MsgArg("Filter type is not allowed", f.type),
          details |-> Msg("Allowed types")]
    ELSE IF ~FilterValueOk(f.type, f.value)
    THEN [ok |-> FALSE, query |-> query,
          message |-> MsgArg("Failed to apply filter", f.type),
          details |-> MsgArg(f.type, AcceptedDomain(f.type))]
    ELSE [ok |-> TRUE,
          query |-> [query EXCEPT !.where = Append(@, f)],
          message |-> Msg(""), details |-> Msg("")]

(***************************************************************************)
(* builders/query_builder.py                                               *)
(***************************************************************************)
\* select(Task) without the user predicate
BaseQueryUnscoped(user_id) ==
    [scope |-> NoId, where |-> <<>>, order |-> "created_at desc", limit |-> NoInt]

\* select(Task).where(Task.user_id == user_id)
BaseQuery(user_id) ==
    [scope |-> user_id, where |-> <<>>, order |-> "created_at desc", limit |-> NoInt]

RECURSIVE ApplyFilters(_, _, _)
ApplyFilters(query, filters, k) ==
    IF k > Len(filters)
    THEN [ok |-> TRUE, query |-> query, message |-> Msg(""), details |-> Msg("")]
    ELSE LET r == ApplyFilter(query, filters[k]) IN
         IF r.ok THEN ApplyFilters(r.query, filters, k + 1) ELSE r

\* SafeQueryBuilder.build_query
BuildQuery(step, user_id) ==
    LET r == ApplyFilters(BaseQuery(user_id), step.filters, 1) IN
    IF ~r.ok THEN r
    ELSE [r EXCEPT !.query.limit =
              IF step.limit # NoInt /\ step.limit # 0 THEN step.limit ELSE NoInt]

(***************************************************************************)
(* repositories/task_repository.py over table "toDoList"                   *)
(* db = [tasks |-> set of rows, nextId |-> next uuid_generate_v4()]        *)
(* Every method also returns the log of the store calls it made: the user  *)
(* id each call was scoped by and the owners of the rows it read or wrote. *)
(***************************************************************************)
Owners(rows) == {t.user_id : t \in rows}

StoreCall(name, scope, rows) == [call |-> name, scope |-> scope, owners |-> Owners(rows)]

SeqToSet(q) == {q[i] : i \in 1..Len(q)}

\* ORDER BY created_at DESC (created_at is unique per row): the row at
\* position i is the one with i - 1 later rows
OrderByCreatedDesc(rows) ==
    [i \in 1..Cardinality(rows) |->
        CHOOSE t \in rows :
            Cardinality({u \in rows : u.created_at > t.created_at}) = i - 1]

\* LIMIT n
Limit(q, n) == IF n = NoInt \/ n >= Len(q) THEN q ELSE SubSeq(q, 1, n)

\* get_by_id selecting on the task id alone
RepoGetByIdUnscoped(db, task_id, user_id) ==
    {t \in db.tasks : t.id = task_id}

\* TaskRepository.get_by_id: the matching rows (none or one)
RepoGetById(db, task_id, user_id) ==
    {t \in db.tasks : t.id = task_id /\ t.user_id = user_id}

\* TaskRepository.get_all
RepoGetAll(db, user_id, limit) ==
    LET rows == Limit(OrderByCreatedDesc({t \in db.tasks : t.user_id = user_id}), limit)
    IN [ok |-> TRUE, tasks |-> rows,
        calls |-> <<StoreCall("get_all", user_id, SeqToSet(rows))>>]

\* TaskRepository.execute_query on a query built by SafeQueryBuilder
RepoExecuteQuery(db, query, now) ==
    IF query.limit # NoInt /\ query.limit < 0
    THEN [ok |-> FALSE, tasks |-> <<>>,
          calls |-> <<StoreCall("execute_query", query.scope, {})>>]
    ELSE LET sel == {t \in db.tasks :
                        /\ (query.scope = NoId \/ t.user_id = query.scope)
                        /\ \A k \in 1..Len(query.where) :
                               FilterPredicate(query.where[k], t, now)}
             rows == Limit(OrderByCreatedDesc(sel), query.limit)
         IN [ok |-> TRUE, tasks |-> rows,
             calls |-> <<StoreCall("execute_query", query.scope, SeqToSet(rows))>>]

\* TaskRepository.create whose insert is rolled back with the session
RepoCreateRolledBack(db, data, user_id, now) ==
    LET task == Task(db.nextId, user_id, data.title, NoStr, data.priority,
                     data.status, data.scheduled_time, now)
    IN [ok |-> TRUE, task |-> task, db |-> db,
        calls |-> <<StoreCall("create", user_id, {task})>>]

\* TaskRepository.create: Task(user_id=user_id, **task_data.model_dump())
RepoCreate(db, data, user_id, now) ==
    LET task == Task(db.nextId, user_id, data.title, NoStr, data.priority,
                     data.status, data.scheduled_time, now)
    IN [ok |-> TRUE, task |-> task,
        db |-> [tasks |-> db.tasks \cup {task}, nextId |-> db.nextId + 1],
        calls |-> <<StoreCall("create", user_id, {task})>>]

\* setattr for every field of model_dump(), the unset ones included
SetFieldsWithUnset(t, data) ==
    [t EXCEPT !.title = data.title, !.priority = data.priority,
              !.status = data.status, !.scheduled_time = data.scheduled_time]

\* setattr(task, field, value) for the fields of model_dump(exclude_unset=True)
SetFields(t, data) ==
    [t EXCEPT !.title = IF data.title # NoStr THEN data.title ELSE @,
              !.priority = IF data.priority # NoInt THEN data.priority ELSE @,
              !.status = IF data.status # NoStr THEN data.status ELSE @,
              !.scheduled_time =
                  IF data.scheduled_time # NoInt THEN data.scheduled_time ELSE @]

\* TaskRepository.update: ok = FALSE is TaskNotFoundException
RepoUpdate(db, task_id, data, user_id) ==
    LET found == RepoGetById(db, task_id, user_id) IN
    IF found = {}
    THEN [ok |-> FALSE, tasks |-> <<>>, db |-> db,
          calls |-> <<StoreCall("get_by_id", user_id, {})>>]
    ELSE LET old == CHOOSE t \in found : TRUE
             new == SetFields(old, data)
         IN [ok |-> TRUE, tasks |-> <<new>>,
             db |-> [db EXCEPT !.tasks = (@ \ {old}) \cup {new}],
             calls |-> <<StoreCall("get_by_id", user_id, found),
                         StoreCall("update", user_id, found)>>]

\* TaskRepository.delete: ok = FALSE is TaskNotFoundException
RepoDelete(db, task_id, user_id) ==
    LET found == RepoGetById(db, task_id, user_id) IN
    IF found = {}
    THEN [ok |-> FALSE, db |-> db, calls |-> <<StoreCall("get_by_id", user_id, {})>>]
    ELSE [ok |-> TRUE, db |-> [db EXCEPT !.tasks = @ \ found],
          calls |-> <<StoreCall("get_by_id", user_id, found),
                      StoreCall("delete", user_id, found)>>]

\* .values(**modifications): every key is written as a column of the row
SetColumns(t, mods) ==
    [SetFields(t, mods) EXCEPT !.user_id = IF mods.user_id # NoId THEN mods.user_id ELSE @]

\* the statement violates a CHECK constraint or names an unknown column
BatchRejected(mods) ==
    \/ mods.task_id # NoId
    \/ mods.priority # NoInt /\ (mods.priority < MinPriority \/ mods.priority > MaxPriority)
    \/ mods.status # NoStr /\ mods.status \notin ALLOWED_STATUSES

\* update_batch without "Task.id.in_(task_ids)": every row of the user
RepoUpdateBatchAllRows(db, task_ids, mods, user_id) ==
    LET hit == {t \in db.tasks : t.user_id = user_id} IN
    IF mods = NoMods \/ (mods.task_id # NoId) \/ (hit # {} /\ BatchRejected(mods))
    THEN [ok |-> FALSE, count |-> 0, db |-> db,
          calls |-> <<StoreCall("update_batch", user_id, {})>>]
    ELSE [ok |-> TRUE, count |-> Cardinality(hit),
          db |-> [db EXCEPT !.tasks = (@ \ hit) \cup {SetColumns(t, mods) : t \in hit}],
          calls |-> <<StoreCall("update_batch", user_id, hit)>>]

\* update_batch emulated row by row and interrupted after the first row
RepoUpdateBatchPartial(db, task_ids, mods, user_id) ==
    LET hit == {t \in db.tasks : t.id \in task_ids /\ t.user_id = user_id} IN
    IF mods = NoMods \/ (mods.task_id # NoId)
    THEN [ok |-> FALSE, count |-> 0, db |-> db,
          calls |-> <<StoreCall("update_batch", user_id, {})>>]
    ELSE IF hit = {}
    THEN [ok |-> TRUE, count |-> 0, db |-> db,
          calls |-> <<StoreCall("update_batch", user_id, {})>>]
    ELSE LET first == CHOOSE t \in hit : \A o \in hit : t.id <= o.id IN
         [ok |-> ~BatchRejected(mods), count |-> Cardinality(hit),
          db |-> [db EXCEPT !.tasks = (@ \ {first}) \cup {SetFields(first, mods)}],
          calls |-> <<StoreCall("update_batch", user_id, hit)>>]

\* TaskRepository.update_batch: one UPDATE ... WHERE id IN (...) AND user_id = :u
\* ok = FALSE is DatabaseException (statement rolled back)
RepoUpdateBatch(db, task_ids, mods, user_id) ==
    LET hit == {t \in db.tasks : t.id \in task_ids /\ t.user_id = user_id} IN
    IF mods = NoMods \/ (mods.task_id # NoId) \/ (hit # {} /\ BatchRejected(mods))
    THEN [ok |-> FALSE, count |-> 0, db |-> db,
          calls |-> <<StoreCall("update_batch", user_id, {})>>]
    ELSE [ok |-> TRUE, count |-> Cardinality(hit),
          db |-> [db EXCEPT !.tasks = (@ \ hit) \cup {SetColumns(t, mods) : t \in hit}],
          calls |-> <<StoreCall("update_batch", user_id, hit)>>]

(***************************************************************************)
(* operations/*.py: each execute returns an OperationResult and never      *)
(* raises (every exception is caught and reported as success = FALSE)      *)
(***************************************************************************)
\* pydantic validation of the fields shared by TaskCreate and TaskUpdate
SchemaValid(data) ==
    /\ data.priority # NoInt => data.priority \in MinPriority..MaxPriority
    /\ data.status # NoStr => data.status \in ALLOWED_STATUSES

\* CreateOperation.execute
CreateOp(db, params, user_id, now) ==
    IF params.title = NoStr
    THEN [res |-> OperationResult(FALSE, DataNone, Msg("Task title is required")),
          db |-> db, calls |-> <<>>]
    ELSE IF params.priority # NoInt /\ (params.priority < MinPriority \/ params.priority > MaxPriority)
    THEN [res |-> OperationResult(FALSE, DataNone, Msg("Priority must be 0-3")),
          db |-> db, calls |-> <<>>]
    ELSE IF ~SchemaValid(params)
    THEN [res |-> OperationResult(FALSE, DataNone, Msg("validation error for TaskCreate")),
          db |-> db, calls |-> <<>>]
    ELSE LET data == [params EXCEPT
                        !.priority = IF @ = NoInt THEN 0 ELSE @,
                        !.status = IF @ = NoStr THEN "pending" ELSE @]
             r == RepoCreate(db, data, user_id, now)
         IN [res |-> OperationResult(TRUE, DataTask(r.task),
                                     MsgArg("Created task", r.task.title)),
             db |-> r.db, calls |-> r.calls]

\* ReadOperation.execute reporting an empty result as a failure
ReadOpFailsOnEmpty(db, step, user_id, now) ==
    LET b == BuildQuery(step, user_id) IN
    IF ~b.ok
    THEN [res |-> OperationResult(FALSE, DataNone, b.message), db |-> db, calls |-> <<>>]
    ELSE LET r == RepoExecuteQuery(db, b.query, now) IN
         IF ~r.ok \/ Len(r.tasks) = 0
         THEN [res |-> OperationResult(FALSE, DataNone, Msg("Failed to execute query")),
               db |-> db, calls |-> r.calls]
         ELSE [res |-> OperationResult(TRUE, DataList(r.tasks),
                                       MsgArg("Found tasks", ToString(Len(r.tasks)))),
               db |-> db, calls |-> r.calls]

\* ReadOperation.execute with params = {"step_spec": step}
ReadOp(db, step, user_id, now) ==
    LET b == BuildQuery(step, user_id) IN
    IF ~b.ok
    THEN [res |-> OperationResult(FALSE, DataNone, b.message), db |-> db, calls |-> <<>>]
    ELSE LET r == RepoExecuteQuery(db, b.query, now) IN
         IF ~r.ok
         THEN [res |-> OperationResult(FALSE, DataNone, Msg("Failed to execute query")),
               db |-> db, calls |-> r.calls]
         ELSE [res |-> OperationResult(TRUE, DataList(r.tasks),
                                       MsgArg("Found tasks", ToString(Len(r.tasks)))),
               db |-> db, calls |-> r.calls]

\* UpdateOperation.execute validating the fields after the row is written
UpdateOpValidatesAfterWrite(db, params, user_id) ==
    IF params.task_id = NoId
    THEN [res |-> OperationResult(FALSE, DataNone, Msg("Task ID is required for update")),
          db |-> db, calls |-> <<>>]
    ELSE LET r == RepoUpdate(db, params.task_id, params, user_id) IN
         IF ~r.ok
         THEN [res |-> OperationResult(FALSE, DataNone,
                                       MsgArg("Task not found", ToString(params.task_id))),
               db |-> db, calls |-> r.calls]
         ELSE IF ~SchemaValid(params)
         THEN [res |-> OperationResult(FALSE, DataNone, Msg("validation error for TaskUpdate")),
               db |-> r.db, calls |-> r.calls]
         ELSE [res |-> OperationResult(TRUE, DataTask(r.tasks[1]),
                                       MsgArg("Updated task", r.tasks[1].title)),
               db |-> r.db, calls |-> r.calls]

\* UpdateOperation.execute
UpdateOp(db, params, user_id) ==
    IF params.task_id = NoId
    THEN [res |-> OperationResult(FALSE, DataNone, Msg("Task ID is required for update")),
          db |-> db, calls |-> <<>>]
    ELSE IF ~SchemaValid(params)
    THEN [res |-> OperationResult(FALSE, DataNone, Msg("validation error for TaskUpdate")),
          db |-> db, calls |-> <<>>]
    ELSE LET r == RepoUpdate(db, params.task_id, params, user_id) IN
         IF ~r.ok
         THEN [res |-> OperationResult(FALSE, DataNone,
                                       MsgArg("Task not found", ToString(params.task_id))),
               db |-> db, calls |-> r.calls]
         ELSE [res |-> OperationResult(TRUE, DataTask(r.tasks[1]),
                                       MsgArg("Updated task", r.tasks[1].title)),
               db |-> r.db, calls |-> r.calls]

\* DeleteOperation.execute
DeleteOp(db, params, user_id) ==
    IF params.task_id = NoId
    THEN [res |-> OperationResult(FALSE, DataNone, Msg("Task ID is required for delete")),
          db |-> db, calls |-> <<>>]
    ELSE LET r == RepoDelete(db, params.task_id, user_id) IN
         IF ~r.ok
         THEN [res |-> OperationResult(FALSE, DataNone,
                                       MsgArg("Task not found", ToString(params.task_id))),
               db |-> db, calls |-> r.calls]
         ELSE [res |-> OperationResult(TRUE, DataDeleted(params.task_id), Msg("Deleted task")),
               db |-> r.db, calls |-> r.calls]

(***************************************************************************)
(* services/query_executor.py: one step                                    *)
(* A step runs up to its first store call and that call atomically; a step *)
(* that resolves its target with one store call and mutates with a second  *)
(* (search-then-act, delete by index) suspends between the two (await).    *)
(***************************************************************************)
NoPend == [call |-> "none", params |-> EmptyDict, title |-> NoStr]
NoRes == OperationResult(FALSE, DataNone, Msg(""))

StepResult(res, db, calls) ==
    [kind |-> "result", res |-> res, exc |-> NoStr, pend |-> NoPend,
     db |-> db, calls |-> calls]
StepRaise(exc, db, calls) ==
    [kind |-> "raise", res |-> NoRes, exc |-> exc, pend |-> NoPend,
     db |-> db, calls |-> calls]
StepAwait(pend, db, calls) ==
    [kind |-> "await", res |-> NoRes, exc |-> NoStr, pend |-> pend,
     db |-> db, calls |-> calls]
OfOp(r) == StepResult(r.res, r.db, r.calls)

\* {"task_id": str(task.id), **step.modifications}
MergeParams(task_id, mods) ==
    [mods EXCEPT !.task_id = IF @ # NoId THEN @ ELSE task_id]

\* the StepSpec built by _execute_update_with_search / _execute_delete_with_search
SearchStep(step) ==
    [step EXCEPT !.operation = "read", !.params = EmptyDict, !.limit = 1,
                 !.save_result_as = NoStr, !.use_result_from = NoStr,
                 !.selector = NoStr, !.index = NoInt, !.modifications = NoMods]

\* _execute_update_batch treating an empty list like a missing context entry
ExecuteUpdateBatchRejectsEmpty(step, user_id, ctx, db) ==
    IF step.use_result_from = NoStr \/ step.use_result_from \notin DOMAIN ctx
       \/ ~Truthy(ctx[step.use_result_from])
    THEN StepResult(OperationResult(FALSE, DataNone,
                        Msg("No tasks found in context for batch update")), db, <<>>)
    ELSE LET tasks == ctx[step.use_result_from] IN
         IF tasks.kind # "list"
         THEN StepResult(OperationResult(FALSE, DataNone,
                             Msg("Invalid task list for batch update")), db, <<>>)
         ELSE LET task_ids == {tasks.tasks[i].id : i \in 1..Len(tasks.tasks)}
                  r == RepoUpdateBatch(db, task_ids, step.modifications, user_id)
              IN IF ~r.ok THEN StepRaise("DatabaseException", db, r.calls)
                 ELSE StepResult(OperationResult(TRUE, DataCount(r.count),
                                     MsgArg("Updated tasks", ToString(r.count))),
                                 r.db, r.calls)

\* QueryExecutor._execute_update_batch
ExecuteUpdateBatch(step, user_id, ctx, db) ==
    IF step.use_result_from = NoStr \/ step.use_result_from \notin DOMAIN ctx
    THEN StepResult(OperationResult(FALSE, DataNone,
                        Msg("No tasks found in context for batch update")), db, <<>>)
    ELSE LET tasks == ctx[step.use_result_from] IN
         IF tasks.kind # "list"
         THEN StepResult(OperationResult(FALSE, DataNone,
                             Msg("Invalid task list for batch update")), db, <<>>)
         ELSE LET task_ids == {tasks.tasks[i].id : i \in 1..Len(tasks.tasks)}
                  r == RepoUpdateBatch(db, task_ids, step.modifications, user_id)
              IN IF ~r.ok THEN StepRaise("DatabaseException", db, r.calls)
                 ELSE StepResult(OperationResult(TRUE, DataCount(r.count),
                                     MsgArg("Updated tasks", ToString(r.count))),
                                 r.db, r.calls)

\* _execute_delete_by_index without "index < 0": tasks[-1] is the last task
ExecuteDeleteByIndexNoLowerBound(step, user_id, db) ==
    LET all == RepoGetAll(db, user_id, GetAllDefaultLimit)
        tasks == all.tasks
        index == step.index - 1
    IN IF step.index = NoInt THEN StepRaise("TypeError", db, all.calls)
       ELSE IF index >= Len(tasks)
       THEN StepResult(OperationResult(FALSE, DataNone,
                           MsgArg("Task index out of range", ToString(step.index))),
                       db, all.calls)
       ELSE IF index < 0 /\ Len(tasks) + index < 0
       THEN StepRaise("IndexError", db, all.calls)
       ELSE LET task == IF index < 0 THEN tasks[Len(tasks) + index + 1]
                        ELSE tasks[index + 1] IN
            StepAwait([call |-> "repo_delete",
                       params |-> [EmptyDict EXCEPT !.task_id = task.id],
                       title |-> task.title], db, all.calls)

\* QueryExecutor._execute_delete_by_index up to repository.delete
ExecuteDeleteByIndex(step, user_id, db) ==
    LET all == RepoGetAll(db, user_id, GetAllDefaultLimit)
        tasks == all.tasks
        index == step.index - 1
    IN IF step.index = NoInt THEN StepRaise("TypeError", db, all.calls)
       ELSE IF index < 0 \/ index >= Len(tasks)
       THEN StepResult(OperationResult(FALSE, DataNone,
                           MsgArg("Task index out of range", ToString(step.index))),
                       db, all.calls)
       ELSE LET task == tasks[index + 1] IN
            StepAwait([call |-> "repo_delete",
                       params |-> [EmptyDict EXCEPT !.task_id = task.id],
                       title |-> task.title], db, all.calls)

\* QueryExecutor._execute_update_with_search / _execute_delete_with_search
\* up to operations[op].execute
ExecuteWithSearch(step, user_id, db, now) ==
    LET search == ReadOp(db, SearchStep(step), user_id, now) IN
    IF ~search.res.success \/ ~Truthy(search.res.data)
    THEN StepResult(OperationResult(FALSE, DataNone,
                        Msg("No tasks found matching your criteria. Please try a different search.")),
                    db, search.calls)
    ELSE LET task == search.res.data.tasks[1] IN
         IF step.operation = "update"
         THEN IF step.modifications = NoMods
              THEN StepRaise("TypeError", db, search.calls)
              ELSE StepAwait([call |-> "update",
                              params |-> MergeParams(task.id, step.modifications),
                              title |-> NoStr], db, search.calls)
         ELSE StepAwait([call |-> "delete",
                         params |-> [EmptyDict EXCEPT !.task_id = task.id],
                         title |-> NoStr], db, search.calls)

\* the use_result_from branch falling through to operation.execute(step.params)
\* when the name is missing from the context
ExecuteWithPreviousUnchecked(step, user_id, ctx, db, now) ==
    IF step.use_result_from \in DOMAIN ctx
    THEN StepResult(OperationResult(FALSE, DataNone,
                        Msg("No tasks found matching your criteria. Please try a different search.")),
                    db, <<>>)
    ELSE CASE step.operation = "create" -> OfOp(CreateOp(db, step.params, user_id, now))
           [] step.operation = "update" -> OfOp(UpdateOp(db, step.params, user_id))
           [] step.operation = "delete" -> OfOp(DeleteOp(db, step.params, user_id))

\* the use_result_from branch acting on the last task of a stored list
ExecuteWithPreviousLast(step, user_id, ctx, db, now) ==
    IF step.use_result_from \notin DOMAIN ctx
    THEN StepResult(OperationResult(FALSE, DataNone,
                        MsgArg("No data found from previous step", step.use_result_from)),
                    db, <<>>)
    ELSE LET previous_data == ctx[step.use_result_from] IN
         IF ~Truthy(previous_data)
         THEN StepResult(OperationResult(FALSE, DataNone,
                             Msg("No tasks found matching your criteria. Please try a different search.")),
                         db, <<>>)
         ELSE IF step.operation \in {"update", "delete"}
         THEN IF previous_data.kind \notin {"list", "task"}
              THEN StepRaise("AttributeError", db, <<>>)
              ELSE LET target == previous_data.tasks[Len(previous_data.tasks)] IN
                   IF step.operation = "update"
                   THEN IF step.modifications = NoMods
                        THEN StepRaise("TypeError", db, <<>>)
                        ELSE OfOp(UpdateOp(db, MergeParams(target.id, step.modifications), user_id))
                   ELSE OfOp(DeleteOp(db, [EmptyDict EXCEPT !.task_id = target.id], user_id))
         ELSE OfOp(CreateOp(db, step.params, user_id, now))

\* QueryExecutor._execute_step, lines 228-278: a step that uses the result
\* of a previous step
ExecuteWithPrevious(step, user_id, ctx, db, now) ==
    IF step.use_result_from \notin DOMAIN ctx
    THEN StepResult(OperationResult(FALSE, DataNone,
                        MsgArg("No data found from previous step", step.use_result_from)),
                    db, <<>>)
    ELSE LET previous_data == ctx[step.use_result_from] IN
         IF ~Truthy(previous_data)
         THEN StepResult(OperationResult(FALSE, DataNone,
                             Msg("No tasks found matching your criteria. Please try a different search.")),
                         db, <<>>)
         ELSE IF step.operation \in {"update", "delete"}
         THEN IF previous_data.kind \notin {"list", "task"}
              THEN StepRaise("AttributeError", db, <<>>)
              ELSE IF previous_data.kind = "list" /\ Len(previous_data.tasks) = 0
              THEN StepResult(OperationResult(FALSE, DataNone,
                                  IF step.operation = "update"
                                  THEN Msg("No tasks found to update.")
                                  ELSE Msg("No tasks found to delete.")), db, <<>>)
              ELSE LET target == previous_data.tasks[1] IN
                   IF step.operation = "update"
                   THEN IF step.modifications = NoMods
                        THEN StepRaise("TypeError", db, <<>>)
                        ELSE OfOp(UpdateOp(db, MergeParams(target.id, step.modifications), user_id))
                   ELSE OfOp(DeleteOp(db, [EmptyDict EXCEPT !.task_id = target.id], user_id))
         ELSE OfOp(CreateOp(db, step.params, user_id, now))

\* QueryExecutor._execute_step
ExecuteStep(step, user_id, ctx, db, now) ==
    IF step.operation = "update_batch"
    THEN ExecuteUpdateBatch(step, user_id, ctx, db)
    ELSE IF step.operation \notin {"create", "read", "update", "delete"}
    THEN StepRaise("QueryValidationException", db, <<>>)
    ELSE IF step.operation = "read"
    THEN OfOp(ReadOp(db, step, user_id, now))
    ELSE IF /\ step.operation = "update" /\ step.filters # <<>>
            /\ step.params.task_id = NoId /\ step.use_result_from = NoStr
    THEN ExecuteWithSearch(step, user_id, db, now)
    ELSE IF step.operation = "delete" /\ step.selector = "by_index"
    THEN ExecuteDeleteByIndex(step, user_id, db)
    ELSE IF /\ step.operation = "delete" /\ step.filters # <<>>
            /\ step.params.task_id = NoId /\ step.use_result_from = NoStr
    THEN ExecuteWithSearch(step, user_id, db, now)
    ELSE IF step.use_result_from # NoStr
    THEN ExecuteWithPrevious(step, user_id, ctx, db, now)
    ELSE CASE step.operation = "create" -> OfOp(CreateOp(db, step.params, user_id, now))
           [] step.operation = "update" -> OfOp(UpdateOp(db, step.params, user_id))
           [] step.operation = "delete" -> OfOp(DeleteOp(db, step.params, user_id))

\* the store call a suspended step resumes with
ResumeStep(pend, user_id, db) ==
    CASE pend.call = "update" -> OfOp(UpdateOp(db, pend.params, user_id))
      [] pend.call = "delete" -> OfOp(DeleteOp(db, pend.params, user_id))
      [] pend.call = "repo_delete" ->
            LET r == RepoDelete(db, pend.params.task_id, user_id) IN
            IF ~r.ok THEN StepRaise("TaskNotFoundException", db, r.calls)
            ELSE StepResult(OperationResult(TRUE, DataDeleted(pend.params.task_id),
                                MsgArg("Deleted task", pend.title)),
                            r.db, r.calls)

(***************************************************************************)
(* Specifications handed to the engine (models/query_spec.py)              *)
(***************************************************************************)
StepSpec(operation, params, filters, limit, save_result_as, use_result_from, selector, index, modifications) ==
    [operation |-> operation, params |-> params, filters |-> filters,
     limit |-> limit, save_result_as |-> save_result_as,
     use_result_from |-> use_result_from, selector |-> selector,
     index |-> index, modifications |-> modifications]

\* __post_init__ testing only that there is a step
SpecificationValidAnyLength(complexity, steps) == Len(steps) > 0

\* QuerySpecification.__post_init__ accepts the specification
SpecificationValid(complexity, steps) ==
    /\ Len(steps) > 0
    /\ ~(complexity = "simple" /\ Len(steps) > 1)

QuerySpecification(complexity, steps) ==
    [complexity |-> complexity, steps |-> steps, natural_response |-> Msg("Done.")]

NoSpec == [complexity |-> "none", steps |-> <<>>, natural_response |-> Msg("")]

ExecutionResult(success, message, data) ==
    [success |-> success, message |-> message, data |-> data]
NoExecutionResult == ExecutionResult(FALSE, Msg(""), DataNone)

\* QueryExecutor._format_result_data
FormatResultData(res) == IF Truthy(res.data) THEN res.data ELSE DataNone

EmptyContext == [name \in {} |-> DataNone]
ContextPut(ctx, name, data) ==
    [k \in DOMAIN ctx \cup {name} |-> IF k = name THEN data ELSE ctx[k]]

(***************************************************************************)
(* State                                                                   *)
(***************************************************************************)
VARIABLES
    db,        \* the task table and its id generator
    now,       \* the clock (datetime.utcnow(), NOW())
    owner,     \* owner[e]: user id an execution runs for (NoId: no execution)
    spec,      \* spec[e]: the QuerySpecification being executed
    pc,        \* pc[e]: position of execution e
    idx,       \* idx[e]: position of the loop of _execute_sequential
    context,   \* context[e]: the context dict of the execution
    results,   \* results[e]: the per-step OperationResults
    pend,      \* pend[e]: the store call a suspended step resumes with
    outcome,   \* outcome[e]: the ExecutionResult returned by execute
    exc,       \* exc[e]: the exception that escaped execute
    calls,     \* calls[e]: log of the store calls the execution has made
    arg,       \* the arguments of a direct call of a constructor or builder
    ret        \* what that call returned or raised

vars == <<db, now, owner, spec, pc, idx, context, results, pend, outcome, exc, calls,
          arg, ret>>

(***************************************************************************)
(* Inputs: initial task tables and specifications                          *)
(***************************************************************************)
\* ids of the rows the small initial tables draw from
InitialRows == {1, 2, 3}
FirstFreeId == Cardinality(InitialRows) + 1

\* row i of an initial table, owned by u
InitialTask(i, u) ==
    Task(i, u,
         IF i % 2 = 1 THEN "milk" ELSE "report",
         CASE i % 3 = 1 -> "home" [] i % 3 = 2 -> "Work" [] OTHER -> NoStr,
         CASE i % 3 = 1 -> 1 [] i % 3 = 2 -> 3 [] OTHER -> 2,
         CASE i % 3 = 1 -> "pending" [] i % 3 = 2 -> "completed" [] OTHER -> "in_progress",
         CASE i % 3 = 1 -> 1 [] i % 3 = 2 -> 1 [] OTHER -> FirstFreeId + 6,
         i)

\* every assignment of an owner (or of absence) to the initial rows
InitialStores ==
    {[tasks |-> {InitialTask(i, f[i]) : i \in {j \in InitialRows : f[j] # NoId}},
      nextId |-> FirstFreeId] : f \in [InitialRows -> Users \cup {NoId}]}

\* a table in which user 1 owns one row more than get_all's default page
BigStore ==
    [tasks |-> {Task(i, 1, "milk", NoStr, 0, "pending", NoInt, i) :
                    i \in 1..(GetAllDefaultLimit + 1)},
     nextId |-> GetAllDefaultLimit + 2]

FilterLists ==
    {<<>>,
     <<FilterSpec("is_overdue", VNone)>>,
     <<FilterSpec("is_completed", VNone)>>,
     <<FilterSpec("priority_min", VInt(2))>>,
     <<FilterSpec("priority_min", VInt(7))>>,
     <<FilterSpec("status", VStr("pending"))>>,
     <<FilterSpec("keyword", VStr("milk"))>>,
     <<FilterSpec("keyword", VStr("grocery"))>>,
     <<FilterSpec("is_overdue", VNone), FilterSpec("priority_max", VInt(1))>>,
     <<FilterSpec("status", VStr("pending")), FilterSpec("priority_equals", VStr("high"))>>}

SomeFilterLists ==
    {<<>>, <<FilterSpec("keyword", VStr("milk"))>>, <<FilterSpec("priority_min", VInt(7))>>}

Limits == {NoInt, -1, 0, 1, 2}
Indexes == {NoInt, -1, 0} \cup (1..FirstFreeId)
TaskIds == {NoId, 1, 2, FirstFreeId + 1}
UseNames == {NoStr, "x"}

Completed == [EmptyDict EXCEPT !.status = "completed"]
Urgent == [EmptyDict EXCEPT !.priority = 3]
BadPriority == [EmptyDict EXCEPT !.priority = 7]
NewMilk == [EmptyDict EXCEPT !.title = "milk"]

ReadSteps ==
    {StepSpec("read", EmptyDict, fl, lim, NoStr, use, NoStr, NoInt, NoMods) :
        fl \in FilterLists, lim \in Limits, use \in UseNames}

CreateSteps ==
    {StepSpec("create", [EmptyDict EXCEPT !.title = title, !.priority = prio],
              <<>>, NoInt, NoStr, use, NoStr, NoInt, NoMods) :
        title \in {NoStr, "milk"}, prio \in {NoInt, 2, 7}, use \in UseNames}

UpdateSteps ==
    {StepSpec("update", [fields EXCEPT !.task_id = id], fl, NoInt, NoStr, use,
              NoStr, NoInt, mods) :
        id \in TaskIds, fields \in {Completed, BadPriority}, fl \in SomeFilterLists,
        use \in UseNames, mods \in {NoMods, Urgent}}

DeleteSteps ==
    {StepSpec("delete", [EmptyDict EXCEPT !.task_id = id], fl, NoInt, NoStr, use,
              NoStr, NoInt, NoMods) :
        id \in TaskIds, fl \in SomeFilterLists, use \in UseNames}

DeleteByIndexSteps ==
    {StepSpec("delete", [EmptyDict EXCEPT !.task_id = id], fl, NoInt, NoStr, use,
              "by_index", index, NoMods) :
        id \in {NoId, 1}, fl \in {<<>>, <<FilterSpec("keyword", VStr("milk"))>>},
        use \in UseNames, index \in Indexes}

UpdateBatchSteps ==
    {StepSpec("update_batch", EmptyDict, <<>>, NoInt, NoStr, use, NoStr, NoInt, mods) :
        use \in UseNames, mods \in {NoMods, Completed}}

UnknownSteps ==
    {StepSpec("archive", EmptyDict, <<>>, NoInt, NoStr, NoStr, NoStr, NoInt, NoMods)}

\* the steps of single-step specifications
SingleSteps ==
    ReadSteps \cup CreateSteps \cup UpdateSteps \cup DeleteSteps
        \cup DeleteByIndexSteps \cup UpdateBatchSteps \cup UnknownSteps

\* the steps multi-step chains are built from
ChainSteps ==
    {StepSpec("read", EmptyDict, <<>>, NoInt, NoStr, NoStr, NoStr, NoInt, NoMods),
     StepSpec("read", EmptyDict, <<FilterSpec("keyword", VStr("milk"))>>, 1, "t",
              NoStr, NoStr, NoInt, NoMods),
     StepSpec("read", EmptyDict, <<FilterSpec("keyword", VStr("grocery"))>>, 1, "t",
              NoStr, NoStr, NoInt, NoMods),
     StepSpec("read", EmptyDict, <<FilterSpec("is_overdue", VNone)>>, NoInt, "t",
              NoStr, NoStr, NoInt, NoMods),
     StepSpec("create", NewMilk, <<>>, NoInt, "t", NoStr, NoStr, NoInt, NoMods),
     StepSpec("update", EmptyDict, <<>>, NoInt, NoStr, "t", NoStr, NoInt, Completed),
     StepSpec("delete", EmptyDict, <<>>, NoInt, NoStr, "t", NoStr, NoInt, NoMods),
     StepSpec("delete", EmptyDict, <<>>, NoInt, "t", NoStr, "by_index", 1, NoMods),
     StepSpec("update_batch", EmptyDict, <<>>, NoInt, NoStr, "t", NoStr, NoInt, Completed)}

RECURSIVE Chains(_)
Chains(n) ==
    IF n = 0 THEN {<<>>}
    ELSE {Append(c, s) : c \in Chains(n - 1), s \in ChainSteps}

Specifications ==
    {QuerySpecification(cx, <<s>>) :
        cx \in {"simple", "multi_step", "interactive"}, s \in SingleSteps}
    \cup
    {QuerySpecification(cx, c) :
        cx \in {"multi_step", "interactive"},
        c \in UNION {Chains(n) : n \in 2..MaxSteps}}

\* specifications run against BigStore
BigSpecifications ==
    {QuerySpecification("simple",
        <<StepSpec("delete", EmptyDict, <<>>, NoInt, NoStr, NoStr, "by_index", index, NoMods)>>) :
        index \in {0, 1, GetAllDefaultLimit, GetAllDefaultLimit + 1, GetAllDefaultLimit + 2}}

(***************************************************************************)
(* Direct calls of the constructors of models/query_spec.py and of the     *)
(* builders                                                                *)
(***************************************************************************)
NoQuery == [scope |-> NoId, where |-> <<>>, order |-> NoStr, limit |-> NoInt]

Call(fn, query, filter, step, complexity, steps) ==
    [fn |-> fn, query |-> query, filter |-> filter, step |-> step,
     complexity |-> complexity, steps |-> steps]

NoCall == Call("none", NoQuery, FilterSpec(NoStr, VNone), <<>>, NoStr, <<>>)

\* the call returned a value
Return(query) ==
    [done |-> TRUE, ok |-> TRUE, exc |-> NoStr, query |-> query, message |-> Msg("")]

\* the call raised an exception and returned nothing
Raise(exception, message) ==
    [done |-> TRUE, ok |-> FALSE, exc |-> exception, query |-> NoQuery, message |-> message]

NoRet == [done |-> FALSE, ok |-> FALSE, exc |-> NoStr, query |-> NoQuery, message |-> Msg("")]

FilterTypes == allowed_types \cup {"owner", "user_id", "IS_OVERDUE", NoStr}

FilterValues ==
    {VNone, VInt(-1), VInt(0), VInt(2), VInt(3), VInt(4), VBool(TRUE), VBool(FALSE),
     VStr("high"), VStr("pending"), VStr("done"), VIso(1)}

\* filters whatever their type and value (as a caller that bypasses the
\* constructor can pass them)
AnyFilters == {FilterSpec(type, v) : type \in FilterTypes, v \in FilterValues}

Queries == {BaseQuery(1), [BaseQuery(1) EXCEPT !.where = <<FilterSpec("is_completed", VNone)>>]}

OneStep == StepSpec("read", EmptyDict, <<>>, NoInt, NoStr, NoStr, NoStr, NoInt, NoMods)

Calls ==
    {Call("FilterSpec", NoQuery, f, <<>>, NoStr, <<>>) : f \in AnyFilters}
    \cup
    {Call("apply_filter", q, f, <<>>, NoStr, <<>>) : q \in Queries, f \in AnyFilters}
    \cup
    {Call("build_query", NoQuery, FilterSpec(NoStr, VNone),
          StepSpec("read", EmptyDict, fl, lim, NoStr, NoStr, NoStr, NoInt, NoMods),
          NoStr, <<>>) :
        fl \in {<<>>} \cup {<<f>> : f \in AnyFilters}
                \cup {<<FilterSpec("is_completed", VNone), f>> : f \in AnyFilters},
        lim \in Limits}
    \cup
    {Call("QuerySpecification", NoQuery, FilterSpec(NoStr, VNone), <<>>, cx,
          [i \in 1..n |-> OneStep]) :
        cx \in {"simple", "multi_step", "interactive"}, n \in 0..(MaxSteps + 1)}

(***************************************************************************)
(* Initial states                                                          *)
(***************************************************************************)
InitCommon ==
    /\ now = db.nextId
    /\ idx = [e \in Execs |-> 1]
    /\ context = [e \in Execs |-> EmptyContext]
    /\ results = [e \in Execs |-> <<>>]
    /\ pend = [e \in Execs |-> NoPend]
    /\ outcome = [e \in Execs |-> NoExecutionResult]
    /\ exc = [e \in Execs |-> NoStr]
    /\ calls = [e \in Execs |-> <<>>]
    /\ arg = NoCall
    /\ ret = NoRet

\* one request: execute(specification, user_id) on some table; user ids
\* are interchangeable, so the request is made by user 1
Init ==
    /\ \/ /\ db \in InitialStores
          /\ \E sp \in Specifications :
                /\ owner = [e \in Execs |-> IF e = 1 THEN 1 ELSE NoId]
                /\ spec = [e \in Execs |-> IF e = 1 THEN sp ELSE NoSpec]
       \/ /\ db = BigStore
          /\ \E sp \in BigSpecifications :
                /\ owner = [e \in Execs |-> IF e = 1 THEN 1 ELSE NoId]
                /\ spec = [e \in Execs |-> IF e = 1 THEN sp ELSE NoSpec]
    /\ pc = [e \in Execs |-> IF e = 1 THEN "start" ELSE "idle"]
    /\ InitCommon

(***************************************************************************)
(* Actions                                                                 *)
(***************************************************************************)
\* NOW() advances with every insert
ClockAfter(newdb) == IF newdb.nextId > db.nextId THEN now + 1 ELSE now

\* QueryExecutor.execute: dispatch on complexity
Execute(e) ==
    /\ pc[e] = "start"
    /\ pc' = [pc EXCEPT ![e] = IF spec[e].complexity = "simple" THEN "simple"
                               ELSE "sequential"]
    /\ UNCHANGED <<db, now, owner, spec, idx, context, results, pend, outcome, exc, calls,
                   arg, ret>>

\* _execute_simple, from the result of its step to its return
SimpleReturn(e, res) ==
    /\ results' = [results EXCEPT ![e] = <<res>>]
    /\ outcome' = [outcome EXCEPT ![e] =
           ExecutionResult(res.success, spec[e].natural_response, FormatResultData(res))]
    /\ pc' = [pc EXCEPT ![e] = "returned"]
    /\ UNCHANGED <<idx, context>>

\* any(r.success for r in results)
AnySucceeded(rs) == \E i \in 1..Len(rs) : rs[i].success

\* all(r.success for r in results)
AllSucceeded(rs) == \A i \in 1..Len(rs) : rs[i].success

\* the loop of _execute_sequential without its break
SequentialContinueNoBreak(e, res) ==
    LET step == spec[e].steps[idx[e]]
        rs == Append(results[e], res)
        last == idx[e] = Len(spec[e].steps)
    IN /\ results' = [results EXCEPT ![e] = rs]
       /\ context' = [context EXCEPT ![e] =
              IF step.save_result_as # NoStr
              THEN ContextPut(@, step.save_result_as, res.data) ELSE @]
       /\ idx' = [idx EXCEPT ![e] = IF last THEN @ ELSE @ + 1]
       /\ pc' = [pc EXCEPT ![e] = IF last THEN "returned" ELSE "sequential"]
       /\ outcome' = [outcome EXCEPT ![e] =
              IF last
              THEN ExecutionResult(AllSucceeded(rs), spec[e].natural_response,
                                   FormatResultData(rs[Len(rs)]))
              ELSE @]

\* _execute_sequential keeping its context on the executor, where every
\* execution in flight writes it
SequentialContinueSharedContext(e, res) ==
    LET step == spec[e].steps[idx[e]]
        rs == Append(results[e], res)
        last == ~res.success \/ idx[e] = Len(spec[e].steps)
    IN /\ results' = [results EXCEPT ![e] = rs]
       /\ context' = [x \in Execs |->
              IF step.save_result_as # NoStr
              THEN ContextPut(context[x], step.save_result_as, res.data) ELSE context[x]]
       /\ idx' = [idx EXCEPT ![e] = IF last THEN @ ELSE @ + 1]
       /\ pc' = [pc EXCEPT ![e] = IF last THEN "returned" ELSE "sequential"]
       /\ outcome' = [outcome EXCEPT ![e] =
              IF last
              THEN ExecutionResult(AllSucceeded(rs), spec[e].natural_response,
                                   FormatResultData(rs[Len(rs)]))
              ELSE @]

\* _execute_sequential, from the result of a step to the next iteration of
\* the loop or to its return
SequentialContinue(e, res) ==
    LET step == spec[e].steps[idx[e]]
        rs == Append(results[e], res)
        last == ~res.success \/ idx[e] = Len(spec[e].steps)
    IN /\ results' = [results EXCEPT ![e] = rs]
       /\ context' = [context EXCEPT ![e] =
              IF step.save_result_as # NoStr
              THEN ContextPut(@, step.save_result_as, res.data) ELSE @]
       /\ idx' = [idx EXCEPT ![e] = IF last THEN @ ELSE @ + 1]
       /\ pc' = [pc EXCEPT ![e] = IF last THEN "returned" ELSE "sequential"]
       /\ outcome' = [outcome EXCEPT ![e] =
              IF last
              THEN ExecutionResult(AllSucceeded(rs), spec[e].natural_response,
                                   FormatResultData(rs[Len(rs)]))
              ELSE @]

\* what the engine does with the outcome of (the first part of) a step
Proceed(e, out) ==
    /\ db' = out.db
    /\ now' = ClockAfter(out.db)
    /\ calls' = [calls EXCEPT ![e] = @ \o out.calls]
    /\ CASE out.kind = "raise" ->
              /\ pc' = [pc EXCEPT ![e] = "raised"]
              /\ exc' = [exc EXCEPT ![e] = out.exc]
              /\ pend' = [pend EXCEPT ![e] = NoPend]
              /\ UNCHANGED <<idx, context, results, outcome>>
         [] out.kind = "await" ->
              /\ pc' = [pc EXCEPT ![e] = "await"]
              /\ pend' = [pend EXCEPT ![e] = out.pend]
              /\ UNCHANGED <<idx, context, results, outcome, exc>>
         [] out.kind = "result" ->
              /\ pend' = [pend EXCEPT ![e] = NoPend]
              /\ exc' = exc
              /\ IF spec[e].complexity = "simple"
                 THEN SimpleReturn(e, out.res)
                 ELSE SequentialContinue(e, out.res)
    /\ UNCHANGED <<owner, spec, arg, ret>>

\* _execute_simple: the single step, with an empty context
ExecuteSimple(e) ==
    /\ pc[e] = "simple"
    /\ Proceed(e, ExecuteStep(spec[e].steps[1], owner[e], EmptyContext, db, now))

\* _execute_sequential (also _execute_interactive): one iteration of the loop
ExecuteSequential(e) ==
    /\ pc[e] = "sequential"
    /\ Proceed(e, ExecuteStep(spec[e].steps[idx[e]], owner[e], context[e], db, now))

\* a suspended step resumes with its second store call
Resume(e) ==
    /\ pc[e] = "await"
    /\ Proceed(e, ResumeStep(pend[e], owner[e], db))

\* time passes while a request is being served
Tick ==
    /\ \E e \in Execs : pc[e] \in {"simple", "sequential", "await"}
    /\ now - db.nextId < MaxClock
    /\ now' = now + 1
    /\ UNCHANGED <<db, owner, spec, pc, idx, context, results, pend, outcome, exc, calls,
                   arg, ret>>

Next ==
    \/ \E e \in Execs : Execute(e)
    \/ \E e \in Execs : ExecuteSimple(e)
    \/ \E e \in Execs : ExecuteSequential(e)
    \/ \E e \in Execs : Resume(e)
    \/ Tick

Spec == Init /\ [][Next]_vars

(***************************************************************************)
(* Two requests of different users served concurrently: the event loop     *)
(* switches between them at every awaited store call                       *)
(***************************************************************************)
\* tables in which user 1 owns row 1 and another user owns row 2
ConcStores ==
    {[tasks |-> {InitialTask(i, f[i]) : i \in InitialRows}, nextId |-> FirstFreeId] :
        f \in {g \in [InitialRows -> Users] : g[1] = 1 /\ g[2] # 1}}

ConcSpecifications ==
    {QuerySpecification("simple", <<s>>) :
        s \in {StepSpec("read", EmptyDict, <<>>, NoInt, NoStr, NoStr, NoStr, NoInt, NoMods),
               StepSpec("create", NewMilk, <<>>, NoInt, NoStr, NoStr, NoStr, NoInt, NoMods),
               StepSpec("update", [Completed EXCEPT !.task_id = 1], <<>>, NoInt, NoStr,
                        NoStr, NoStr, NoInt, NoMods),
               StepSpec("update", [Completed EXCEPT !.task_id = 2], <<>>, NoInt, NoStr,
                        NoStr, NoStr, NoInt, NoMods),
               StepSpec("delete", [EmptyDict EXCEPT !.task_id = 1], <<>>, NoInt, NoStr,
                        NoStr, NoStr, NoInt, NoMods),
               StepSpec("delete", [EmptyDict EXCEPT !.task_id = 2], <<>>, NoInt, NoStr,
                        NoStr, NoStr, NoInt, NoMods),
               StepSpec("delete", EmptyDict, <<>>, NoInt, NoStr, NoStr, "by_index", 1, NoMods),
               StepSpec("update", EmptyDict, <<FilterSpec("keyword", VStr("milk"))>>, NoInt,
                        NoStr, NoStr, NoStr, NoInt, Urgent),
               StepSpec("delete", EmptyDict, <<FilterSpec("keyword", VStr("report"))>>, NoInt,
                        NoStr, NoStr, NoStr, NoInt, NoMods)}}
    \cup
    {QuerySpecification("multi_step", c) :
        c \in {<<StepSpec("read", EmptyDict, <<>>, NoInt, "t", NoStr, NoStr, NoInt, NoMods),
                 StepSpec("update_batch", EmptyDict, <<>>, NoInt, NoStr, "t", NoStr, NoInt,
                          Completed)>>,
               <<StepSpec("read", EmptyDict, <<>>, NoInt, "t", NoStr, NoStr, NoInt, NoMods),
                 StepSpec("update_batch", EmptyDict, <<>>, NoInt, NoStr, "t", NoStr, NoInt,
                          [EmptyDict EXCEPT !.user_id = 2])>>,
               <<StepSpec("read", EmptyDict, <<FilterSpec("keyword", VStr("milk"))>>, 1, "t",
                          NoStr, NoStr, NoInt, NoMods),
                 StepSpec("delete", EmptyDict, <<>>, NoInt, NoStr, "t", NoStr, NoInt, NoMods)>>,
               <<StepSpec("create", NewMilk, <<>>, NoInt, "t", NoStr, NoStr, NoInt, NoMods),
                 StepSpec("update", EmptyDict, <<>>, NoInt, NoStr, "t", NoStr, NoInt,
                          Completed)>>}}

\* execute(sp1, 1) and execute(sp2, u) with u # 1 are both in flight
InitConc ==
    /\ db \in ConcStores
    /\ \E u \in Users \ {1} : owner = [e \in Execs |-> IF e = 1 THEN 1 ELSE u]
    /\ spec \in [Execs -> ConcSpecifications]
    /\ pc = [e \in Execs |-> "start"]
    /\ InitCommon

NextConc ==
    \/ \E e \in Execs : Execute(e)
    \/ \E e \in Execs : ExecuteSimple(e)
    \/ \E e \in Execs : ExecuteSequential(e)
    \/ \E e \in Execs : Resume(e)

SpecConc == InitConc /\ [][NextConc]_vars

(***************************************************************************)
(* Two requests of the same user served concurrently                       *)
(***************************************************************************)
\* tables in which user 1 owns row 1
SharedStores ==
    {[tasks |-> {InitialTask(i, f[i]) : i \in InitialRows}, nextId |-> FirstFreeId] :
        f \in {g \in [InitialRows -> Users] : g[1] = 1}}

SharedSpecifications ==
    {QuerySpecification("simple", <<s>>) :
        s \in {StepSpec("read", EmptyDict, <<>>, NoInt, NoStr, NoStr, NoStr, NoInt, NoMods),
               StepSpec("create", NewMilk, <<>>, NoInt, NoStr, NoStr, NoStr, NoInt, NoMods),
               StepSpec("update", [Urgent EXCEPT !.task_id = 1], <<>>, NoInt, NoStr,
                        NoStr, NoStr, NoInt, NoMods),
               StepSpec("delete", [EmptyDict EXCEPT !.task_id = 1], <<>>, NoInt, NoStr,
                        NoStr, NoStr, NoInt, NoMods),
               StepSpec("delete", EmptyDict, <<>>, NoInt, NoStr, NoStr, "by_index", 1, NoMods),
               StepSpec("update", EmptyDict, <<FilterSpec("keyword", VStr("milk"))>>, NoInt,
                        NoStr, NoStr, NoStr, NoInt, Urgent)}}
    \cup
    {QuerySpecification("multi_step", c) :
        c \in {<<StepSpec("read", EmptyDict, <<>>, NoInt, "t", NoStr, NoStr, NoInt, NoMods),
                 StepSpec("update_batch", EmptyDict, <<>>, NoInt, NoStr, "t", NoStr, NoInt,
                          Completed)>>,
               <<StepSpec("read", EmptyDict, <<>>, NoInt, "t", NoStr, NoStr, NoInt, NoMods),
                 StepSpec("update_batch", EmptyDict, <<>>, NoInt, NoStr, "t", NoStr, NoInt,
                          BadPriority)>>,
               <<StepSpec("read", EmptyDict, <<FilterSpec("keyword", VStr("milk"))>>, 1, "t",
                          NoStr, NoStr, NoInt, NoMods),
                 StepSpec("delete", EmptyDict, <<>>, NoInt, NoStr, "t", NoStr, NoInt, NoMods)>>,
               <<StepSpec("read", EmptyDict, <<>>, NoInt, "t", NoStr, NoStr, NoInt, NoMods),
                 StepSpec("create", NewMilk, <<>>, NoInt, "t", NoStr, NoStr, NoInt, NoMods)>>}}
    \cup
    {QuerySpecification("simple",
        <<StepSpec("read", EmptyDict, <<>>, NoInt, "t", NoStr, NoStr, NoInt, NoMods)>>)}

\* execute(sp1, 1) and execute(sp2, 1) are both in flight
InitShared ==
    /\ db \in SharedStores
    /\ owner = [e \in Execs |-> 1]
    /\ spec \in [Execs -> SharedSpecifications]
    /\ pc = [e \in Execs |-> "start"]
    /\ InitCommon

SpecShared == InitShared /\ [][NextConc]_vars

(***************************************************************************)
(* One request whose first step stores the list of all the user's tasks    *)
(***************************************************************************)
ReadAllAs(name) ==
    StepSpec("read", EmptyDict, <<>>, NoInt, name, NoStr, NoStr, NoInt, NoMods)

ListSpecifications ==
    {QuerySpecification("multi_step", <<ReadAllAs("t"), s>>) :
        s \in {StepSpec("update", EmptyDict, <<>>, NoInt, NoStr, "t", NoStr, NoInt, Completed),
               StepSpec("update", EmptyDict, <<>>, NoInt, NoStr, "t", NoStr, NoInt, NoMods),
               StepSpec("delete", EmptyDict, <<>>, NoInt, NoStr, "t", NoStr, NoInt, NoMods),
               StepSpec("delete", EmptyDict, <<>>, NoInt, "d", "t", "by_index", 2, NoMods)}}
    \cup
    {QuerySpecification("simple", <<s>>) :
        s \in {ReadAllAs("t"),
               StepSpec("delete", EmptyDict, <<>>, NoInt, NoStr, "t", NoStr, NoInt, NoMods)}}

InitList ==
    /\ db \in InitialStores
    /\ owner = [e \in Execs |-> IF e = 1 THEN 1 ELSE NoId]
    /\ \E sp \in ListSpecifications : spec = [e \in Execs |-> IF e = 1 THEN sp ELSE NoSpec]
    /\ pc = [e \in Execs |-> IF e = 1 THEN "start" ELSE "idle"]
    /\ InitCommon

SpecList == InitList /\ [][NextConc]_vars

(***************************************************************************)
(* Store failures: a store call raises DatabaseException (the repository   *)
(* methods catch every error of the session, roll back and raise it)       *)
(***************************************************************************)
\* the log entry of a store call that failed
FailedCall(name, user_id) == <<StoreCall(name, user_id, {})>>

\* _execute_step when the store call the step issues raises
\* DatabaseException: the operations catch it (except Exception) and return
\* a failed result, the search-then-act paths replace the failed search by
\* their no-match result, _execute_update_batch and _execute_delete_by_index
\* catch nothing
FaultStep(step, user_id, ctx, store, time) ==
    LET log == FailedCall(CASE step.operation = "update_batch" -> "update_batch"
                            [] step.operation = "read" -> "execute_query"
                            [] step.operation = "delete" /\ step.selector = "by_index" -> "get_all"
                            [] /\ step.operation \in {"update", "delete"}
                               /\ step.filters # <<>> /\ step.params.task_id = NoId
                               /\ step.use_result_from = NoStr -> "execute_query"
                            [] step.operation = "create" -> "create"
                            [] OTHER -> "get_by_id", user_id)
        search == /\ step.filters # <<>> /\ step.params.task_id = NoId
                  /\ step.use_result_from = NoStr
    IN CASE step.operation = "update_batch" -> StepRaise("DatabaseException", store, log)
         [] step.operation = "read" ->
               StepResult(OperationResult(FALSE, DataNone, Msg("Failed to execute query")),
                          store, log)
         [] step.operation = "update" /\ search ->
               StepResult(OperationResult(FALSE, DataNone,
                              Msg("No tasks found matching your criteria. Please try a different search.")),
                          store, log)
         [] step.operation = "delete" /\ step.selector = "by_index" ->
               StepRaise("DatabaseException", store, log)
         [] step.operation = "delete" /\ step.selector # "by_index" /\ search ->
               StepResult(OperationResult(FALSE, DataNone,
                              Msg("No tasks found matching your criteria. Please try a different search.")),
                          store, log)
         [] OTHER ->
               StepResult(OperationResult(FALSE, DataNone,
                              CASE step.operation = "create" -> Msg("Failed to create task")
                                [] step.operation = "update" -> Msg("Failed to update task")
                                [] OTHER -> Msg("Failed to delete task")),
                          store, log)

\* the second store call of a suspended step raises DatabaseException
FaultResume(pending, user_id, store) ==
    LET log == FailedCall("get_by_id", user_id) IN
    CASE pending.call = "update" ->
            StepResult(OperationResult(FALSE, DataNone, Msg("Failed to update task")), store, log)
      [] pending.call = "delete" ->
            StepResult(OperationResult(FALSE, DataNone, Msg("Failed to delete task")), store, log)
      [] OTHER -> StepRaise("DatabaseException", store, log)

\* the store fails the call the execution is about to make
StoreFault(e) ==
    \/ /\ pc[e] = "simple"
       /\ ExecuteStep(spec[e].steps[1], owner[e], EmptyContext, db, now).calls # <<>>
       /\ Proceed(e, FaultStep(spec[e].steps[1], owner[e], EmptyContext, db, now))
    \/ /\ pc[e] = "sequential"
       /\ ExecuteStep(spec[e].steps[idx[e]], owner[e], context[e], db, now).calls # <<>>
       /\ Proceed(e, FaultStep(spec[e].steps[idx[e]], owner[e], context[e], db, now))
    \/ /\ pc[e] = "await"
       /\ ResumeStep(pend[e], owner[e], db).calls # <<>>
       /\ Proceed(e, FaultResume(pend[e], owner[e], db))

NextFault ==
    \/ \E e \in Execs : Execute(e)
    \/ \E e \in Execs : ExecuteSimple(e)
    \/ \E e \in Execs : ExecuteSequential(e)
    \/ \E e \in Execs : Resume(e)
    \/ \E e \in Execs : StoreFault(e)

SpecFault == InitConc /\ [][NextFault]_vars

(***************************************************************************)
(* One direct call of a constructor or a builder, no request in flight     *)
(***************************************************************************)
InitCall ==
    /\ db = [tasks |-> {}, nextId |-> FirstFreeId]
    /\ now = db.nextId
    /\ owner = [e \in Execs |-> NoId]
    /\ spec = [e \in Execs |-> NoSpec]
    /\ pc = [e \in Execs |-> "idle"]
    /\ idx = [e \in Execs |-> 1]
    /\ context = [e \in Execs |-> EmptyContext]
    /\ results = [e \in Execs |-> <<>>]
    /\ pend = [e \in Execs |-> NoPend]
    /\ outcome = [e \in Execs |-> NoExecutionResult]
    /\ exc = [e \in Execs |-> NoStr]
    /\ calls = [e \in Execs |-> <<>>]
    /\ arg \in Calls
    /\ ret = NoRet

Returns(r) ==
    /\ ~ret.done
    /\ ret' = r
    /\ UNCHANGED <<db, now, owner, spec, pc, idx, context, results, pend, outcome, exc,
                   calls, arg>>

\* FilterSpec(type=..., value=...)
CallFilterSpec ==
    /\ arg.fn = "FilterSpec"
    /\ Returns(IF FilterSpecValid(arg.filter.type) THEN Return(NoQuery)
               ELSE Raise("ValueError", MsgArg("Invalid filter type", arg.filter.type)))

\* FilterBuilder.apply_filter(query, filter_spec)
CallApplyFilter ==
    /\ arg.fn = "apply_filter"
    /\ LET r == ApplyFilter(arg.query, arg.filter) IN
       Returns(IF r.ok THEN Return(r.query)
               ELSE Raise("QueryValidationException", r.message))

\* SafeQueryBuilder.build_query(step, user_id)
CallBuildQuery ==
    /\ arg.fn = "build_query"
    /\ LET r == BuildQuery(arg.step, 1) IN
       Returns(IF r.ok THEN Return(r.query)
               ELSE Raise("QueryValidationException", r.message))

\* QuerySpecification(complexity=..., steps=...)
CallQuerySpecification ==
    /\ arg.fn = "QuerySpecification"
    /\ Returns(IF SpecificationValid(arg.complexity, arg.steps) THEN Return(NoQuery)
               ELSE Raise("ValueError",
                          IF Len(arg.steps) = 0
                          THEN Msg("Query specification must have at least one step")
                          ELSE Msg("Simple queries should have only one step")))

NextCall ==
    \/ CallFilterSpec
    \/ CallApplyFilter
    \/ CallBuildQuery
    \/ CallQuerySpecification

SpecCall == InitCall /\ [][NextCall]_vars

(***************************************************************************)
(* Properties                                                              *)
(***************************************************************************)
Running == {e \in Execs : owner[e] # NoId}
Steps(e) == spec[e].steps
Sequential(e) == spec[e].complexity \in {"multi_step", "interactive"}
Returned(e) == pc[e] = "returned"
LastResult(e) == results[e][Len(results[e])]
RowIds == {t.id : t \in db.tasks}

\* the row matches every filter of the list
Matches(t, filters) ==
    \A k \in 1..Len(filters) : FilterPredicate(filters[k], t, now)

\* C1: every query build_query builds for user U carries the predicate
\* user_id = U, whatever the filters and the limit, and the tasks a read
\* step returns to an execution for U are all owned by U.
C1_ReadScopedToUser ==
    \A e \in Running :
        /\ \A i \in 1..Len(Steps(e)) :
              LET b == BuildQuery(Steps(e)[i], owner[e]) IN
              b.ok => b.query.scope = owner[e]
        /\ \A i \in 1..Len(results[e]) :
              (Steps(e)[i].operation = "read" /\ results[e][i].success) =>
                  \A k \in 1..Len(results[e][i].data.tasks) :
                      results[e][i].data.tasks[k].user_id = owner[e]

\* a filtered, limited read has returned rows while another user owns a
\* row that matches the same filters
C1_Witness ==
    \E e \in Running :
        /\ Returned(e) /\ Steps(e)[1].operation = "read"
        /\ Steps(e)[1].filters # <<>> /\ Steps(e)[1].limit = 2
        /\ results[e][1].success /\ Len(results[e][1].data.tasks) > 0
        /\ \E t \in db.tasks : t.user_id # owner[e] /\ Matches(t, Steps(e)[1].filters)

\* C3: in a multi_step or interactive execution a failed step is the last
\* step executed: the per-step results end with it, the execution has
\* returned with aggregate success false, and from then on the execution
\* makes no store call and the table does not change.
C3_FailFast ==
    /\ [](\A e \in Running : \A i \in 1..Len(results[e]) :
            (Sequential(e) /\ ~results[e][i].success) =>
                /\ i = Len(results[e]) /\ i = idx[e]
                /\ Returned(e) /\ ~outcome[e].success)
    /\ [][\A e \in Running :
            (Sequential(e) /\ Len(results[e]) > 0 /\ ~LastResult(e).success) =>
                /\ calls'[e] = calls[e] /\ results'[e] = results[e]
                /\ db' = db]_vars

\* a chain stopped at a failed step that is not its last step
C3_Witness ==
    \E e \in Running :
        /\ Sequential(e) /\ Returned(e)
        /\ Len(results[e]) < Len(Steps(e))
        /\ ~LastResult(e).success

\* C5: the aggregate success returned by execute is true iff every step
\* that was executed returned success = true, for every complexity.
C5_AggregateSuccess ==
    \A e \in Running :
        Returned(e) =>
            (outcome[e].success <=> \A i \in 1..Len(results[e]) : results[e][i].success)

\* a chain returned after a successful step followed by a failed one
C5_Witness ==
    \E e \in Running :
        /\ Returned(e) /\ Len(results[e]) = 2
        /\ results[e][1].success /\ ~results[e][2].success
        /\ ~outcome[e].success

\* names written by save_result_as of the steps before position i
WrittenBefore(e, i) ==
    {Steps(e)[j].save_result_as : j \in 1..(i - 1)} \ {NoStr}

\* step i of the execution names a context entry no earlier step has written
UnsetUse(e, i) ==
    /\ Steps(e)[i].use_result_from # NoStr
    /\ Steps(e)[i].use_result_from \notin WrittenBefore(e, i)

\* the execution takes a step of its own in this transition
Acts(e) == <<pc[e], results[e], calls[e]>>' # <<pc[e], results[e], calls[e]>>

\* the execution is about to begin step idx[e]
AtStep(e) == pc[e] \in {"simple", "sequential"}

\* the operation is one of those the engine dispatches on
KnownOperation(step) ==
    step.operation \in {"create", "read", "update", "delete", "update_batch"}

\* C4 (as claimed): when a step fails, the message of the aggregate result
\* returned by execute equals the message of the failed step's result.
C4_AggregateMessageIsStepMessage ==
    \A e \in Running :
        Returned(e) =>
            \A i \in 1..Len(results[e]) :
                ~results[e][i].success => outcome[e].message = results[e][i].message

\* C6: no rollback: when a chain has stopped at a failed step, a task
\* created by an earlier successful step is still in the table (unless a
\* later successful step of the chain deleted it), a task updated by an
\* earlier step still carries the update (unless a later step of the chain
\* wrote it again), and a task deleted by an earlier step is still gone.
C6_NoRollback ==
    \A e \in Running :
        (Returned(e) /\ ~outcome[e].success) =>
            \A i \in 1..(Len(results[e]) - 1) :
                LET op == Steps(e)[i].operation
                    d == results[e][i].data
                    later == (i + 1)..(Len(results[e]) - 1)
                    deletedLater ==
                        \E j \in later : /\ Steps(e)[j].operation = "delete"
                                         /\ results[e][j].data.id = d.id
                    writtenLater ==
                        \E j \in later :
                            Steps(e)[j].operation \in {"update", "delete", "update_batch"}
                IN /\ (op = "create" /\ ~deletedLater) => d.id \in RowIds
                   /\ (op \in {"create", "update"} /\ ~writtenLater) => d.tasks[1] \in db.tasks
                   /\ op = "delete" => d.id \notin RowIds

\* a chain that created a task and then failed has returned, and the task
\* is in the table
C6_Witness ==
    \E e \in Running :
        /\ Returned(e) /\ ~outcome[e].success /\ Len(results[e]) = 2
        /\ Steps(e)[1].operation = "create"
        /\ results[e][1].success /\ ~results[e][2].success
        /\ results[e][1].data.tasks[1] \in db.tasks

\* the step the execution is about to begin
CurrentStep(e) == Steps(e)[idx[e]]

\* the result appended by this transition
NewResult(e) == results'[e][Len(results'[e])]

\* this transition ends the current step with a failed result
StepFails(e) ==
    /\ Len(results'[e]) = Len(results[e]) + 1
    /\ ~NewResult(e).success

\* C7 (as claimed): a step of any operation, selector and filters whose
\* use_result_from names a context entry no earlier step has written fails
\* with a "no data" result and makes no store access.
C7_UnsetUseAlwaysFails ==
    [][\A e \in Running :
          (AtStep(e) /\ Acts(e) /\ UnsetUse(e, idx[e])) =>
              (StepFails(e) /\ calls'[e] = calls[e])]_vars

\* the steps the use_result_from check of _execute_step is reached for
ReachesUseCheck(step) ==
    /\ step.operation \in {"create", "update", "delete", "update_batch"}
    /\ ~(step.operation = "delete" /\ step.selector = "by_index")

\* C7 (amended): a create, update or update_batch step, or a delete step
\* whose selector is not by_index, whose use_result_from names a context
\* entry no earlier step has written fails with a "no data" result, makes no
\* store access and leaves the table unchanged.
C7_UnsetUseFails ==
    [][\A e \in Running :
          (AtStep(e) /\ Acts(e) /\ UnsetUse(e, idx[e]) /\ ReachesUseCheck(CurrentStep(e))) =>
              /\ StepFails(e)
              /\ NewResult(e).message \in
                    {MsgArg("No data found from previous step", CurrentStep(e).use_result_from),
                     Msg("No tasks found in context for batch update")}
              /\ calls'[e] = calls[e]
              /\ db' = db]_vars

\* the second step of a chain named an entry the first, successful step did
\* not write, and failed
C7_Witness ==
    \E e \in Running :
        /\ Returned(e) /\ Len(results[e]) = 2
        /\ UnsetUse(e, 2) /\ ReachesUseCheck(Steps(e)[2])
        /\ results[e][1].success /\ ~results[e][2].success

\* the chain [read(filters, limit=1, save_result_as=t), delete(use_result_from=t)]
SearchThenDeleteChain(e) ==
    /\ Sequential(e) /\ Len(Steps(e)) = 2
    /\ Steps(e)[1].operation = "read" /\ Steps(e)[1].limit = 1
    /\ Steps(e)[1].save_result_as # NoStr
    /\ Steps(e)[2].operation = "delete"
    /\ Steps(e)[2].use_result_from = Steps(e)[1].save_result_as
    /\ Steps(e)[2].selector # "by_index"

OwnTasks(u) == {t \in db.tasks : t.user_id = u}

\* the filters of the read are accepted and no task of the user matches them
ReadMatchesNothing(e) ==
    /\ BuildQuery(Steps(e)[1], owner[e]).ok
    /\ \A t \in OwnTasks(owner[e]) : ~Matches(t, Steps(e)[1].filters)

\* C8 (as claimed): when the read of the chain matches no task, step 1 is
\* the failed step and step 2 is never executed.
C8_StopsAfterRead ==
    [][\A e \in Running :
          (/\ SearchThenDeleteChain(e) /\ AtStep(e) /\ Acts(e)
           /\ idx[e] = 1 /\ ReadMatchesNothing(e)) =>
              /\ StepFails(e) /\ Len(results'[e]) = 1
              /\ pc'[e] = "returned" /\ ~outcome'[e].success]_vars

\* C8 (amended): when the read of the chain matches no task, step 1 succeeds
\* with an empty list, step 2 is executed and is the failed step, returning
\* the "no tasks found" failure without a store call; the table is unchanged,
\* the aggregate success is false and the per-step results hold both steps.
C8_FailsAtDelete ==
    [][\A e \in Running :
          (SearchThenDeleteChain(e) /\ AtStep(e) /\ Acts(e)) =>
              /\ (idx[e] = 1 /\ ReadMatchesNothing(e)) =>
                    /\ Len(results'[e]) = 1
                    /\ NewResult(e).success /\ NewResult(e).data = DataList(<<>>)
                    /\ pc'[e] = "sequential" /\ idx'[e] = 2
                    /\ db' = db
              /\ (idx[e] = 2 /\ results[e][1].data = DataList(<<>>)) =>
                    /\ StepFails(e) /\ Len(results'[e]) = 2
                    /\ NewResult(e).message =
                          Msg("No tasks found matching your criteria. Please try a different search.")
                    /\ calls'[e] = calls[e]
                    /\ db' = db
                    /\ pc'[e] = "returned" /\ ~outcome'[e].success]_vars

\* the chain has returned for a user who owns tasks, none matched by the
\* read: two results, the read's empty list and the failed delete
C8_Witness ==
    \E e \in Running :
        /\ Returned(e) /\ SearchThenDeleteChain(e) /\ ReadMatchesNothing(e)
        /\ OwnTasks(owner[e]) # {}
        /\ Len(results[e]) = 2
        /\ results[e][1].success /\ results[e][1].data = DataList(<<>>)
        /\ ~results[e][2].success

ByIndexDelete(step) == step.operation = "delete" /\ step.selector = "by_index"

\* C9: a delete by index whose index is 0, negative or greater than the
\* number of tasks the user owns fails with the out-of-range message and
\* leaves the table unchanged.
C9_IndexOutOfRange ==
    [][\A e \in Running :
          LET step == CurrentStep(e) IN
          (/\ AtStep(e) /\ Acts(e) /\ ByIndexDelete(step) /\ step.index # NoInt
           /\ (step.index <= 0 \/ step.index > Cardinality(OwnTasks(owner[e])))) =>
              /\ StepFails(e)
              /\ NewResult(e).message = MsgArg("Task index out of range", ToString(step.index))
              /\ db' = db]_vars

\* a delete by an index one past the user's (non-empty) list has failed
C9_Witness ==
    \E e \in Running :
        /\ Returned(e) /\ ByIndexDelete(Steps(e)[1])
        /\ OwnTasks(owner[e]) # {}
        /\ Steps(e)[1].index = Cardinality(OwnTasks(owner[e])) + 1
        /\ ~results[e][1].success

\* the user's full list in default order
FullList(u) == OrderByCreatedDesc(OwnTasks(u))

\* C10 (as claimed): for 1 <= k <= number of tasks of the user, a delete by
\* index k resolves to the task at position k of the user's full list in
\* default order and deletes exactly that task, for every task count.
C10_DeletesKthOfFullList ==
    [][\A e \in Running :
          LET step == CurrentStep(e) IN
          /\ (/\ AtStep(e) /\ Acts(e) /\ ByIndexDelete(step) /\ step.index # NoInt
              /\ step.index >= 1 /\ step.index <= Cardinality(OwnTasks(owner[e]))) =>
                 /\ pc'[e] = "await" /\ pend'[e].call = "repo_delete"
                 /\ pend'[e].params.task_id = FullList(owner[e])[step.index].id
          /\ (pc[e] = "await" /\ pend[e].call = "repo_delete" /\ Acts(e)) =>
                 /\ db'.tasks = {t \in db.tasks : t.id # pend[e].params.task_id}
                 /\ Len(results'[e]) = Len(results[e]) + 1 /\ NewResult(e).success]_vars

\* the rows of the table that are not owned by u
ForeignTasks(tasks, u) == {t \in tasks : t.user_id # u}

\* C2: while executions of different users interleave at their store calls,
\* every store call an execution for U makes is scoped by U's id and touches
\* only rows U owns, every task returned to it is owned by U, and no step of
\* it changes or removes a row that U does not own.
C2_ConcurrentIsolation ==
    /\ [](\A e \in Running :
             /\ \A k \in 1..Len(calls[e]) :
                   /\ calls[e][k].scope = owner[e]
                   /\ calls[e][k].owners \subseteq {owner[e]}
             /\ \A i \in 1..Len(results[e]) :
                   \A j \in 1..Len(results[e][i].data.tasks) :
                       results[e][i].data.tasks[j].user_id = owner[e])
    /\ [][\A e \in Running :
             Acts(e) => ForeignTasks(db.tasks, owner[e]) \subseteq db'.tasks]_vars

\* two executions of different users are both suspended between the two
\* store calls of a step, in a table holding rows of both
C2_Witness ==
    \E e1, e2 \in Running :
        /\ owner[e1] # owner[e2]
        /\ pc[e1] = "await" /\ pc[e2] = "await"
        /\ calls[e1] # <<>> /\ calls[e2] # <<>>
        /\ OwnTasks(owner[e1]) # {} /\ OwnTasks(owner[e2]) # {}

\* the current step is an update_batch whose use_result_from names a
\* context entry holding an empty list
BatchOverEmptyList(e) ==
    /\ Sequential(e)
    /\ CurrentStep(e).operation = "update_batch"
    /\ CurrentStep(e).use_result_from \in DOMAIN context[e]
    /\ context[e][CurrentStep(e).use_result_from] = DataList(<<>>)

\* the modifications are given and name columns of the task
ModificationsGiven(step) ==
    step.modifications # NoMods /\ step.modifications.task_id = NoId

CompleteOverdueChain(e) ==
    /\ Sequential(e) /\ Len(Steps(e)) = 2
    /\ Steps(e)[1].operation = "read"
    /\ Steps(e)[1].filters = <<FilterSpec("is_overdue", VNone)>>
    /\ Steps(e)[1].limit = NoInt /\ Steps(e)[1].save_result_as # NoStr
    /\ Steps(e)[2].operation = "update_batch"
    /\ Steps(e)[2].use_result_from = Steps(e)[1].save_result_as
    /\ Steps(e)[2].modifications = Completed

\* scheduled before the clock's reading and not completed
Overdue(t) ==
    t.scheduled_time # NoInt /\ t.scheduled_time < now /\ t.status # "completed"

\* C12: in the chain [read(is_overdue, save s), update_batch(use s, status
\* completed)] run for U with no other writer, the read finds exactly the
\* overdue tasks of U and changes nothing; the update_batch then sets the
\* status of exactly those tasks to completed and reports their number,
\* every other task of U or of another user keeping all its fields.
C12_CompletesExactlyOverdue ==
    [][\A e \in Running :
          (CompleteOverdueChain(e) /\ AtStep(e) /\ Acts(e)) =>
              /\ idx[e] = 1 =>
                    /\ NewResult(e).success
                    /\ SeqToSet(NewResult(e).data.tasks) =
                          {t \in OwnTasks(owner[e]) : Overdue(t)}
                    /\ db' = db
                    /\ pc'[e] = "sequential"
              /\ idx[e] = 2 =>
                    LET found == SeqToSet(results[e][1].data.tasks) IN
                    /\ found \subseteq db.tasks
                    /\ db'.tasks = (db.tasks \ found)
                                     \cup {[t EXCEPT !.status = "completed"] : t \in found}
                    /\ NewResult(e).success
                    /\ NewResult(e).data = DataCount(Cardinality(found))
                    /\ pc'[e] = "returned" /\ outcome'[e].success]_vars

\* the chain has returned having completed an overdue task of its user,
\* in a table that also holds a task of the user that was not overdue and
\* is not completed, and a task of another user
C12_Witness ==
    \E e \in Running :
        /\ Returned(e) /\ CompleteOverdueChain(e)
        /\ Len(results[e]) = 2 /\ results[e][2].success /\ results[e][2].data.n >= 1
        /\ \E t \in OwnTasks(owner[e]) : t.status # "completed"
        /\ \E t \in db.tasks : t.user_id # owner[e]

\* C13: update_batch is one all-or-nothing store call, also while another
\* execution of the same user is in flight: the step's transition either
\* fails and leaves the table as it was, or applies the modifications to
\* every task it targets (the listed ids the user owns at the call) and to
\* no other, and reports the number of tasks it modified.
C13_BatchAtomic ==
    [][\A e \in Running :
          (/\ AtStep(e) /\ Acts(e) /\ CurrentStep(e).operation = "update_batch"
           /\ Len(calls'[e]) > Len(calls[e])) =>
              LET listed == context[e][CurrentStep(e).use_result_from].tasks
                  ids == {listed[i].id : i \in 1..Len(listed)}
                  targeted == {t \in OwnTasks(owner[e]) : t.id \in ids}
                  mods == CurrentStep(e).modifications
              IN \/ pc'[e] = "raised" /\ db' = db
                 \/ /\ Len(results'[e]) = Len(results[e]) + 1
                    /\ NewResult(e).success
                    /\ db'.tasks = (db.tasks \ targeted)
                                     \cup {SetFields(t, mods) : t \in targeted}
                    /\ NewResult(e).data = DataCount(Cardinality(targeted))]_vars

\* an update_batch has returned having modified fewer tasks than its read
\* had listed, another execution of the same user having deleted one in
\* between
C13_Witness ==
    \E e1, e2 \in Running :
        /\ e1 # e2 /\ owner[e1] = owner[e2]
        /\ Returned(e1) /\ Len(results[e1]) = 2
        /\ Steps(e1)[2].operation = "update_batch"
        /\ results[e1][2].success
        /\ results[e1][2].data.n >= 1
        /\ results[e1][2].data.n < Len(results[e1][1].data.tasks)
        /\ Returned(e2) /\ Steps(e2)[1].operation = "delete" /\ results[e2][1].success

\* C14: for every filter type outside the 13-entry whitelist, constructing
\* a FilterSpec raises, apply_filter raises a validation error and returns
\* no query, and build_query builds no query from a step holding such a
\* filter, so that no predicate of such a type reaches the store.
C14_NonWhitelistedRejected ==
    /\ Cardinality(allowed_types) = 13 /\ ALLOWED_FILTERS = allowed_types
    /\ (ret.done /\ arg.fn = "FilterSpec" /\ arg.filter.type \notin allowed_types) =>
           ~ret.ok /\ ret.exc = "ValueError"
    /\ (ret.done /\ arg.fn = "apply_filter" /\ arg.filter.type \notin allowed_types) =>
           /\ ~ret.ok /\ ret.exc = "QueryValidationException"
           /\ ret.query = NoQuery
           /\ ret.message = MsgArg("Filter type is not allowed", arg.filter.type)
    /\ (/\ ret.done /\ arg.fn = "build_query"
        /\ \E k \in 1..Len(arg.step.filters) : arg.step.filters[k].type \notin allowed_types) =>
           ~ret.ok /\ ret.exc = "QueryValidationException" /\ ret.query = NoQuery
    /\ (ret.done /\ ret.ok /\ arg.fn \in {"apply_filter", "build_query"}) =>
           \A k \in 1..Len(ret.query.where) : ret.query.where[k].type \in allowed_types

\* apply_filter has rejected a filter of type "owner" on a query that
\* already carried a predicate
C14_Witness ==
    /\ ret.done /\ arg.fn = "apply_filter"
    /\ arg.filter.type = "owner" /\ arg.query.where # <<>>
    /\ ret.exc = "QueryValidationException"

PriorityFilters == {"priority_min", "priority_max", "priority_equals"}

\* C15 (as claimed): apply_filter accepts the value of a priority_min,
\* priority_max or priority_equals filter if and only if it is an integer in
\* [0,3]; integers outside the range, booleans, strings and an absent value
\* are rejected.
C15_PriorityValueDomain ==
    (ret.done /\ arg.fn = "apply_filter" /\ arg.filter.type \in PriorityFilters) =>
        (ret.ok <=> (/\ arg.filter.value.t = "int"
                     /\ arg.filter.value.i >= 0 /\ arg.filter.value.i <= 3))

\* C16: constructing a QuerySpecification succeeds exactly when its steps
\* list is non-empty and, if its complexity is simple, holds one step;
\* otherwise the constructor raises. Every specification being executed
\* has a step, and exactly one if it is simple.
C16_SpecificationShape ==
    /\ (ret.done /\ arg.fn = "QuerySpecification") =>
          /\ ret.ok <=> (/\ Len(arg.steps) >= 1
                         /\ arg.complexity = "simple" => Len(arg.steps) = 1)
          /\ ~ret.ok => ret.exc = "ValueError"
    /\ \A e \in Running :
          /\ Len(Steps(e)) >= 1
          /\ spec[e].complexity = "simple" => Len(Steps(e)) = 1

\* the constructor has rejected a simple specification of two steps
C16_Witness ==
    /\ ret.done /\ arg.fn = "QuerySpecification"
    /\ arg.complexity = "simple" /\ Len(arg.steps) = 2
    /\ ret.exc = "ValueError"

\* the data-model invariant of a step
StepInvariant(step) ==
    /\ step.operation = "update_batch" => step.use_result_from # NoStr
    /\ step.index # NoInt <=> step.selector = "by_index"

\* C17 (as claimed): a step that violates the data-model invariant
\* (update_batch without use_result_from, or index set without
\* selector=by_index, or selector=by_index without index) is never executed
\* against the store.
C17_MalformedStepNotExecuted ==
    [][\A e \in Running :
          (AtStep(e) /\ Acts(e) /\ ~StepInvariant(CurrentStep(e))) =>
              calls'[e] = calls[e] /\ db' = db]_vars

\* the step applies its filters: a read, or an update or delete resolved by
\* search-then-act
AppliesFilters(step) ==
    \/ step.operation = "read"
    \/ /\ step.operation \in {"update", "delete"} /\ step.filters # <<>>
       /\ step.params.task_id = NoId /\ step.use_result_from = NoStr
       /\ ~(step.operation = "delete" /\ step.selector = "by_index")

\* positions of the filters whose value has the wrong type or range
InvalidFilters(step) ==
    {k \in 1..Len(step.filters) :
        /\ step.filters[k].type \in allowed_types
        /\ ~FilterValueOk(step.filters[k].type, step.filters[k].value)}

\* C18 (as claimed): a step that applies filters of which at least one has
\* an invalid value type or range is aborted: it fails with a message that
\* names the offending filter and its accepted domain, returns no data and
\* changes no task.
C18_InvalidFilterAborts ==
    [][\A e \in Running :
          LET step == CurrentStep(e) IN
          (AtStep(e) /\ Acts(e) /\ AppliesFilters(step) /\ InvalidFilters(step) # {}) =>
              /\ StepFails(e)
              /\ NewResult(e).data = DataNone
              /\ db' = db
              /\ \E k \in InvalidFilters(step) :
                    /\ step.filters[k].type \in SeqToSet(NewResult(e).message)
                    /\ AcceptedDomain(step.filters[k].type) \in SeqToSet(NewResult(e).message)]_vars

\* the tasks of user u that pass every filter, in default order
Matching(u, filters) ==
    OrderByCreatedDesc({t \in OwnTasks(u) : Matches(t, filters)})

\* the first n elements of q
FirstN(q, n) == SubSeq(q, 1, IF n < Len(q) THEN n ELSE Len(q))

\* a read step whose filters are all whitelisted and well-valued
WellFilteredRead(step) ==
    /\ step.operation = "read"
    /\ \A k \in 1..Len(step.filters) : step.filters[k].type \in allowed_types
    /\ InvalidFilters(step) = {}

\* C19 (as claimed): a read step with a limit L >= 0 returns the first L
\* matching tasks in default order, so at most L tasks; a read step without
\* a limit returns every matching task.
C19_LimitCapsRead ==
    [][\A e \in Running :
          LET step == CurrentStep(e) IN
          (AtStep(e) /\ Acts(e) /\ WellFilteredRead(step)
              /\ (step.limit = NoInt \/ step.limit >= 0)) =>
              /\ Len(results'[e]) = Len(results[e]) + 1
              /\ NewResult(e).success
              /\ NewResult(e).data =
                    DataList(IF step.limit = NoInt
                             THEN Matching(owner[e], step.filters)
                             ELSE FirstN(Matching(owner[e], step.filters), step.limit))]_vars

\* the step fails one of the validations of the engine: a malformed filter
\* value, a create without title, an update or delete by id without id, an
\* update resolved from a search or an earlier result without modifications,
\* a by_index delete without index, an unknown operation
ValidationFailure(step) ==
    \/ ~KnownOperation(step)
    \/ ByIndexDelete(step) /\ step.index = NoInt
    \/ AppliesFilters(step) /\ InvalidFilters(step) # {}
    \/ step.operation = "create" /\ step.use_result_from = NoStr
          /\ step.params.title = NoStr
    \/ step.operation \in {"update", "delete"} /\ ~ByIndexDelete(step)
          /\ step.filters = <<>> /\ step.use_result_from = NoStr
          /\ step.params.task_id = NoId
    \/ step.operation = "update" /\ step.modifications = NoMods
          /\ step.params.task_id = NoId
          /\ (step.filters # <<>> \/ step.use_result_from # NoStr)

\* C20 (as claimed): during execute a step that fails a validation ends in
\* a failed OperationResult, never in an exception escaping execute.
C20_ValidationNeverRaises ==
    [][\A e \in Running :
          (/\ pc[e] \in {"simple", "sequential", "await"}
           /\ Acts(e)
           /\ ValidationFailure(CurrentStep(e))) =>
              /\ pc'[e] # "raised"
              /\ Len(results'[e]) > Len(results[e]) => ~NewResult(e).success]_vars

\* the id of the task this transition of e is about to update or delete
\* (NoId when the transition is not such a mutation): the id a suspended
\* step resumes with, the explicit id of the step, or the id of the first
\* task of the context entry it uses
MutationTarget(e) ==
    LET step == CurrentStep(e) IN
    IF pc[e] = "await" THEN pend[e].params.task_id
    ELSE IF ~(AtStep(e) /\ step.operation \in {"update", "delete"})
            \/ AppliesFilters(step) \/ ByIndexDelete(step)
    THEN NoId
    ELSE IF step.use_result_from = NoStr
    THEN IF SchemaValid(step.params) THEN step.params.task_id ELSE NoId
    ELSE IF /\ step.use_result_from \in DOMAIN context[e]
            /\ context[e][step.use_result_from].kind \in {"list", "task"}
            /\ Len(context[e][step.use_result_from].tasks) > 0
            /\ step.operation = "update" =>
                  (step.modifications # NoMods /\ SchemaValid(step.modifications))
    THEN IF step.operation = "update"
         THEN MergeParams(context[e][step.use_result_from].tasks[1].id,
                          step.modifications).task_id
         ELSE context[e][step.use_result_from].tasks[1].id
    ELSE NoId

\* C21 (as claimed): an update or delete whose target is absent or not owned
\* by the caller at the moment of the mutation, whatever path resolved it
\* and also when another execution of the same user removed it after it was
\* resolved, ends in a failed result with a not-found message, raises
\* nothing and leaves the table unchanged.
C21_AbsentTargetFailsCleanly ==
    [][\A e \in Running :
          (/\ pc[e] \in {"simple", "sequential", "await"}
           /\ Acts(e)
           /\ MutationTarget(e) # NoId
           /\ MutationTarget(e) \notin {t.id : t \in OwnTasks(owner[e])}) =>
              /\ pc'[e] # "raised"
              /\ StepFails(e)
              /\ "Task not found" \in SeqToSet(NewResult(e).message)
              /\ db' = db]_vars

\* C22 (as claimed): when the store fails a call of an execution, whatever
\* the operation, the failure leaves execute as a DatabaseException and not
\* as a failed OperationResult, the call having been issued once.
C22_StoreFailurePropagates ==
    [][\A e \in Running :
          StoreFault(e) =>
              /\ pc'[e] = "raised"
              /\ exc'[e] = "DatabaseException"
              /\ Len(calls'[e]) = Len(calls[e]) + 1]_vars

\* the fields an update can carry and the marker of a field left out
UpdatableFields == {"title", "priority", "status", "scheduled_time"}
Absent(f) == IF f \in {"title", "status"} THEN NoStr ELSE NoInt

\* the step supplies value v for field f (in its params or modifications)
Supplies(step, f, v) ==
    /\ v # Absent(f)
    /\ \/ step.params[f] = v
       \/ step.modifications # NoMods /\ step.modifications[f] = v

\* an update handed straight to UpdateOperation without a task id
UpdateWithoutId(step) ==
    /\ step.operation = "update" /\ step.filters = <<>>
    /\ step.use_result_from = NoStr /\ step.params.task_id = NoId

\* C23: a successful update replaces exactly one task of the user by a row
\* that differs from it only in fields the step supplies, each holding the
\* supplied value, every other task being untouched; an update without task
\* id, or whose task is missing or owned by another user, fails with the
\* id-required or not-found message and changes nothing.
C23_UpdateFrame ==
    [][\A e \in Running :
          LET step == CurrentStep(e) IN
          (/\ pc[e] \in {"simple", "sequential", "await"}
           /\ Acts(e) /\ step.operation = "update") =>
              /\ (Len(results'[e]) > Len(results[e]) /\ NewResult(e).success) =>
                    \E T \in OwnTasks(owner[e]) :
                        LET T2 == NewResult(e).data.tasks[1] IN
                        /\ db'.tasks = (db.tasks \ {T}) \cup {T2}
                        /\ T2.id = T.id /\ T2.user_id = T.user_id
                        /\ T2.created_at = T.created_at /\ T2.category = T.category
                        /\ \A f \in UpdatableFields :
                              T2[f] # T[f] => Supplies(step, f, T2[f])
              /\ UpdateWithoutId(step) =>
                    /\ StepFails(e) /\ db' = db
                    /\ "Task ID is required for update" \in SeqToSet(NewResult(e).message)
              /\ (/\ MutationTarget(e) # NoId
                  /\ MutationTarget(e) \notin {t.id : t \in OwnTasks(owner[e])}) =>
                    /\ StepFails(e) /\ db' = db
                    /\ "Task not found" \in SeqToSet(NewResult(e).message)]_vars

\* an update by id has completed a task of the user, which keeps its title
\* and priority, next to another task of the table
C23_Witness ==
    \E e \in Running :
        /\ Returned(e) /\ Len(results[e]) >= 1
        /\ Steps(e)[1].operation = "update" /\ Steps(e)[1].params.task_id # NoId
        /\ results[e][1].success
        /\ results[e][1].data.tasks[1] \in db.tasks
        /\ results[e][1].data.tasks[1].status = "completed"
        /\ results[e][1].data.tasks[1].title = "milk"
        /\ results[e][1].data.tasks[1].priority = 1
        /\ Cardinality(db.tasks) >= 2

\* a read step whose only filter is is_overdue
OverdueRead(step) ==
    /\ step.operation = "read" /\ Len(step.filters) = 1
    /\ step.filters[1].type = "is_overdue"

\* C24 (as claimed): a read step with the single filter is_overdue and a
\* limit L returns exactly the user's tasks that have a scheduled time
\* earlier than now and are not completed, newest first, truncated to L.
C24_OverdueReadTruncated ==
    [][\A e \in Running :
          LET step == CurrentStep(e) IN
          (AtStep(e) /\ Acts(e) /\ OverdueRead(step) /\ step.limit # NoInt /\ step.limit >= 0) =>
              /\ Len(results'[e]) = Len(results[e]) + 1
              /\ NewResult(e).success
              /\ NewResult(e).data =
                    DataList(FirstN(OrderByCreatedDesc({t \in OwnTasks(owner[e]) : Overdue(t)}),
                                    step.limit))]_vars

\* update or delete with filters, without an explicit id and without
\* use_result_from, the filters being accepted by the filter builder
SearchesByFilters(step) ==
    /\ step.operation \in {"update", "delete"} /\ step.filters # <<>>
    /\ step.params.task_id = NoId /\ step.use_result_from = NoStr
    /\ \A k \in 1..Len(step.filters) : step.filters[k].type \in allowed_types
    /\ InvalidFilters(step) = {}

\* the result of a search that matched no task
NoMatchResult ==
    OperationResult(FALSE, DataNone,
        Msg("No tasks found matching your criteria. Please try a different search."))

\* C25 (as claimed): resolution follows the precedence update_batch, read,
\* search-then-act, delete-by-index, use_result_from; a delete step with
\* filters, no explicit id, no use_result_from and selector by_index (with
\* its index) is resolved by a search on its filters: it targets the newest task matching
\* the filters, or fails with the no-match result when none matches.
C25_SearchBeforeIndex ==
    [][\A e \in Running :
          LET step == CurrentStep(e)
              found == Matching(owner[e], step.filters)
          IN (AtStep(e) /\ Acts(e) /\ SearchesByFilters(step) /\ step.operation = "delete"
                /\ step.selector = "by_index" /\ step.index # NoInt) =>
                 IF found = <<>>
                 THEN /\ Len(results'[e]) = Len(results[e]) + 1
                      /\ NewResult(e) = NoMatchResult
                      /\ db' = db
                 ELSE /\ pc'[e] = "await"
                      /\ pend'[e].call = "delete"
                      /\ pend'[e].params.task_id = found[1].id]_vars

\* C26 (as claimed): an update or delete step with filters, no explicit id
\* and no use_result_from makes one limit-1 read with the step's filters
\* scoped to the user; when a task matches, the update or delete is issued
\* for the newest matching task and changes no other task; when none
\* matches, the step fails with the no-match result; the search itself
\* leaves the store unchanged.
C26_SearchThenActOnNewest ==
    [][\A e \in Running :
          LET step == CurrentStep(e)
              found == Matching(owner[e], step.filters)
          IN /\ (AtStep(e) /\ Acts(e) /\ SearchesByFilters(step)) =>
                   /\ calls'[e] = calls[e] \o
                         <<StoreCall("execute_query", owner[e], SeqToSet(FirstN(found, 1)))>>
                   /\ db' = db
                   /\ IF found = <<>>
                      THEN /\ Len(results'[e]) = Len(results[e]) + 1
                           /\ NewResult(e) = NoMatchResult
                      ELSE /\ pc'[e] = "await"
                           /\ pend'[e].call = step.operation
                           /\ pend'[e].params.task_id = found[1].id
             /\ (pc[e] = "await" /\ Acts(e) /\ pend[e].call \in {"update", "delete"}) =>
                   /\ \A t \in db.tasks : t.id # pend[e].params.task_id => t \in db'.tasks
                   /\ \A t \in db'.tasks : t.id # pend[e].params.task_id => t \in db.tasks]_vars

\* an update or delete step resolved from the context, whose use_result_from
\* names an entry holding a list of at least one task
UsesStoredList(e) ==
    LET step == CurrentStep(e) IN
    /\ AtStep(e) /\ step.operation \in {"update", "delete"}
    /\ ~ByIndexDelete(step)
    /\ step.use_result_from \in DOMAIN context[e]
    /\ context[e][step.use_result_from].kind = "list"
    /\ Len(context[e][step.use_result_from].tasks) >= 1

SavedNames(e) ==
    {Steps(e)[i].save_result_as : i \in 1..Len(results[e])} \ {NoStr}

\* the data of the latest executed step that declared the name
LatestSaved(e, name) ==
    LET i == CHOOSE k \in 1..Len(results[e]) :
                 /\ Steps(e)[k].save_result_as = name
                 /\ \A j \in (k + 1)..Len(results[e]) : Steps(e)[j].save_result_as # name
    IN results[e][i].data

\* the context the claim describes
ContextOfExecuted(e) == [name \in SavedNames(e) |-> LatestSaved(e, name)]

\* C28 (as claimed): at every point of an execution its context maps
\* exactly the names declared by save_result_as of the steps it has
\* executed, each to the data of the latest such step.
C28_ContextOfExecutedSteps ==
    \A e \in Running : context[e] = ContextOfExecuted(e)

\* C28 (amended): at every point of a multi-step or interactive execution
\* its context maps exactly the names declared by save_result_as of the
\* steps it has executed, each to the verbatim data of the latest such
\* step, whatever other executions are in flight; the context is empty when
\* the execution starts; a simple execution runs its single step with an
\* empty context and records no name.
C28_ContextPerSequentialExecution ==
    \A e \in Running :
        /\ pc[e] = "start" => context[e] = EmptyContext
        /\ Sequential(e) => context[e] = ContextOfExecuted(e)
        /\ ~Sequential(e) => context[e] = EmptyContext

\* two chains in flight hold different data under the same name, one of
\* them having written the name twice
C28_Witness ==
    \E e1, e2 \in Running :
        /\ e1 # e2 /\ Sequential(e1) /\ Sequential(e2)
        /\ "t" \in DOMAIN context[e1] /\ "t" \in DOMAIN context[e2]
        /\ context[e1]["t"] # context[e2]["t"]
        /\ Len(results[e1]) = 2
        /\ Steps(e1)[1].save_result_as = "t" /\ Steps(e1)[2].save_result_as = "t"
        /\ results[e1][1].data # results[e1][2].data
        /\ context[e1]["t"] = results[e1][2].data

\* C29 (as claimed): whatever specifications are executed, with whatever
\* params and modifications, every task keeps the owner id and the id it
\* was created with (a row is recognised by its creation time): no
\* execution moves a task into or out of another user's task set.
C29_OwnerAndIdImmutable ==
    [][\A t \in db.tasks : \A u \in db'.tasks :
          (u.created_at = t.created_at \/ u.id = t.id) =>
              /\ u.id = t.id
              /\ u.user_id = t.user_id]_vars

\* C30: a step that ends with a failed result leaves the store as it was
\* when the step started, whatever the operation and the way its target is
\* resolved: the transition that returns the failure changes no task, and
\* neither did the search or the listing the step began with; a read step
\* never changes the store.
C30_FailedStepLeavesStore ==
    [][\A e \in Running :
          /\ (Acts(e) /\ StepFails(e)) => db' = db
          /\ (Acts(e) /\ pc'[e] = "await") => db' = db
          /\ (Acts(e) /\ AtStep(e) /\ CurrentStep(e).operation = "read") => db' = db]_vars

\* an update of an existing task of the user has been refused for its
\* priority, and the task is stored as before
C30_Witness ==
    \E e \in Running :
        /\ Returned(e) /\ ~LastResult(e).success
        /\ LastResult(e).message = Msg("validation error for TaskUpdate")
        /\ Steps(e)[Len(results[e])].operation = "update"
        /\ \E t \in OwnTasks(owner[e]) :
              /\ t.id = Steps(e)[Len(results[e])].params.task_id
              /\ t.priority \in MinPriority..MaxPriority

====
